---- MODULE Spec2Model ----
(***************************************************************************)
(* CodeMorph: the migration job state machine of MigrationEngine and the   *)
(* components it drives (SchemaEvolution, DataMigrator,                    *)
(* ZeroDowntimeManager), as a state machine over the engine's job table,   *)
(* its adapter cache, the asynchronous calls in flight and the events it   *)
(* emits.                                                                  *)
(*                                                                         *)
(* An asynchronous method runs without interruption up to its next await   *)
(* of an adapter call; every action below is one such stretch.  Calls in   *)
(* flight interleave at these points only, as they do on the JavaScript    *)
(* event loop.  A backend (what an adapter call returns, whether it        *)
(* throws) is the environment: its outcomes are chosen with \E.            *)
(***************************************************************************)
EXTENDS Integers, Sequences, FiniteSets, TLC

\* ------------------------------------------------------------- bounds
\* Jobs created during a run.
MaxJobs == 1
\* Calls of startMigration, pauseMigration, resumeMigration and
\* rollbackMigration made during a run.
MaxCalls == 3
\* Calls of startMigration and rollbackMigration in flight at once.
MaxInFlight == 2
\* Tables of a job's schema, and tables the source database holds.
MaxTables == 2
\* Largest row count getCount returns.
MaxCount == 1
\* Latest millisecond Date.now() returns during a run.
MaxClock == 2
\* Calls of ZeroDowntimeManager.cutover made during a run.
MaxCutovers == 1
\* Ticks of one stream's polling loop in flight at once.
MaxTicksInFlight == 1
\* Rows of the source table that the full copy reads.
MaxRows == 5
\* Largest DataMigrator.batchSize.
MaxBatch == 3
\* Tables of the schema that validateDataIntegrity checks.
MaxChecked == 3
\* Rows of the table that the incremental copy reads.
MaxNew == 4
\* Latest instant of a row's created_at and updated_at.
MaxStamp == 2
\* Incremental copies of the table made during a run.
MaxRuns == 2
\* Ticks of the stream's polling loop in flight at once, with finalSync.
MaxTicks == 2
\* Rows the application writes to the source table during a run.
MaxWrites == 2
MaxOld == 2
MaxIndexes == 2

JobIds == 1..MaxJobs
Counts == 0..MaxCount
\* The source and target endpoint signatures
\* `${type}://${host}:${port}/${database}` a job is created with.
EndpointPairs == {<<"A", "B">>}

VARIABLES
    jobs,               \* MigrationEngine.jobs: job id -> MigrationJob
    adapters,           \* MigrationEngine.adapters: the cached endpoint keys
    calls,              \* the calls in flight: call number -> its position and locals
    nCalls,             \* how many calls have been made
    result,             \* the call the last step ended, and how it ended
    emitted,            \* the events the last step emitted, in order
    shadowTables,       \* ZeroDowntimeManager.shadowTables (source table names)
    replicationStreams  \* ZeroDowntimeManager.replicationStreams: table -> isActive

\* The state of MigrationEngine and of the maps of its ZeroDowntimeManager.
engineVars == <<jobs, adapters, calls, nCalls, result, emitted, shadowTables, replicationStreams>>

\* ZeroDowntimeManager's cutover and polling loops seen step by step, with the
\* target database they act on (specification SpecCutover).
VARIABLES
    cutoverCall,        \* the cutover call: the await it is suspended at, its loop variable
    outcome,            \* how the last cutover call ended
    catalog,            \* the target's committed tables: name -> the table under that name
    txn,                \* the transaction on the target adapter's connection
    maintenance,        \* the source's maintenance_mode sentinel is enabled
    issued,             \* the renames the current cutover call has issued to the target
    clock,              \* Date.now()
    pollers,            \* per stream: the interval timer and the ticks in flight
    did                 \* what the last step did on the target

managerVars == <<cutoverCall, outcome, catalog, txn, maintenance, issued, clock, pollers, did>>

\* DataMigrator's full copy of one table (specification SpecCopy).
VARIABLES
    batchSize,          \* DataMigrator.batchSize
    tableDef,           \* the TableDefinition: the type of its second column
    sourceRows,         \* the rows of the source table, in the order selectData pages them
    targetRows,         \* the rows inserted into the target table, in order
    fetches,            \* the selectData calls made: offset and rows returned
    copyCall            \* migrateTableData: its position and locals

copyVars == <<batchSize, tableDef, sourceRows, targetRows, fetches, copyCall>>

\* SchemaEvolution's change of one existing table (specification SpecEvolve)
\* and DataMigrator.validateDataIntegrity (specification SpecIntegrity).
VARIABLES
    evolution,          \* evolveExistingTable: its position, the table on the target, the plan
    integrity,          \* validateDataIntegrity: its position, the counts, its mismatches
    incremental,        \* migrateTableDataIncremental: its position, both tables, its runs
    replica,            \* one table's rows on both sides, its stream and a zero-downtime run
    shared,             \* the manager's maps as two zero-downtime jobs use them
    undo,               \* rollbackSchema and rollbackData on the tables of a job
    copies,             \* migrateDataIncremental: its loop over the tables of a schema
    compat              \* checkTableCompatibility on a column of two tables

dataVars == <<evolution, integrity, incremental, replica, shared, undo, copies, compat>>

\* A step of one of these leaves everything else as it is.
OnlyEvolution ==
    UNCHANGED <<engineVars, managerVars, copyVars,
                integrity, incremental, replica, shared, undo, copies, compat>>

OnlyIntegrity ==
    UNCHANGED <<engineVars, managerVars, copyVars,
                evolution, incremental, replica, shared, undo, copies, compat>>

OnlyIncremental ==
    UNCHANGED <<engineVars, managerVars, copyVars,
                evolution, integrity, replica, shared, undo, copies, compat>>

OnlyReplica ==
    UNCHANGED <<engineVars, managerVars, copyVars,
                evolution, integrity, incremental, shared, undo, copies, compat>>

OnlyShared ==
    UNCHANGED <<engineVars, managerVars, copyVars,
                evolution, integrity, incremental, replica, undo, copies, compat>>

OnlyUndo ==
    UNCHANGED <<engineVars, managerVars, copyVars,
                evolution, integrity, incremental, replica, shared, copies, compat>>

OnlyCopies ==
    UNCHANGED <<engineVars, managerVars, copyVars,
                evolution, integrity, incremental, replica, shared, undo, compat>>

OnlyCompat ==
    UNCHANGED <<engineVars, managerVars, copyVars,
                evolution, integrity, incremental, replica, shared, undo, copies>>

vars == <<engineVars, managerVars, copyVars, dataVars>>

\* ------------------------------------------------------------- numbers
\* job.progress is a JavaScript number; the values the code computes are
\* rationals num/den, kept in lowest terms.
RECURSIVE GCD(_, _)
GCD(a, b) == IF b = 0 THEN a ELSE GCD(b, a % b)

Rat(n, d) == LET g == GCD(n, d) IN [num |-> n \div g, den |-> d \div g]

RAdd(p, q) == Rat(p.num * q.den + q.num * p.den, p.den * q.den)

RMul(p, q) == Rat(p.num * q.num, p.den * q.den)

RLeq(p, q) == p.num * q.den <= q.num * p.den

\* ------------------------------------------------------------- values
\* An error message: its text, and for a row-count failure the table and
\* both counts that the text carries.
Msg(text, table, source, target) ==
    [text |-> text, table |-> table, source |-> source, target |-> target]

PlainMsg(text) == Msg(text, 0, 0, 0)

\* job.error before any failure (undefined).
NoError == PlainMsg("undefined")

\* A thrown value: every throw site of the repository throws `new Error(text)`.
Thrown(msg) == [isError |-> TRUE, message |-> msg]

\* A MigrationLog entry (its timestamp left out).
Log(level, text, detail) == [level |-> level, text |-> text, detail |-> detail]

Event(name, j) == [name |-> name, job |-> j]

\* The tables of a job's schema, in order.
SchemaTables(job) == 1..job.schema

CallIds == 1..MaxCalls

InFlight(c) == c \in DOMAIN calls

\* A call in flight: the operation, its job, the await it is suspended at,
\* and the locals of the copy loop and of validateMigration.
Call(op, j, pc) ==
    [op |-> op, job |-> j, pc |-> pc, completedTables |-> 0, checked |-> <<>>]

\* The call a step ended: it returned, or it raised err to its caller.
Returned(c, op, j) == [call |-> c, op |-> op, job |-> j, outcome |-> "returned", error |-> NoError]

Raised(c, op, j, err) == [call |-> c, op |-> op, job |-> j, outcome |-> "raised", error |-> err]

\* No call ended in the step.
NoResult == [call |-> 0, op |-> "none", job |-> 0, outcome |-> "none", error |-> NoError]

\* A new call may be made, and a new asynchronous call may be in flight.
CanCall == nCalls < MaxCalls

CanSuspend == Cardinality(DOMAIN calls) < MaxInFlight

Suspend(c, op, j, pc) == calls @@ (c :> Call(op, j, pc))

Remove(c) == [d \in DOMAIN calls \ {c} |-> calls[d]]

\* The instant `new Date()` yields during call number c (a logical instant:
\* later calls read later instants).
Now(c) == c

\* ------------------------------------------------------------- createMigration
NewJob(src, tgt, nTables, downtime, rollbackSupported) ==
    [status |-> "pending",
     sourceDatabase |-> src,
     targetDatabase |-> tgt,
     strategy |-> [downtime |-> downtime, rollbackSupported |-> rollbackSupported],
     schema |-> nTables,
     progress |-> Rat(0, 1),
     startTime |-> 0,
     endTime |-> 0,
     error |-> NoError,
     logs |-> <<>>]

CreateMigration(src, tgt, nTables, downtime, rollbackSupported) ==
    /\ Len(jobs) < MaxJobs
    /\ jobs' = Append(jobs, NewJob(src, tgt, nTables, downtime, rollbackSupported))
    /\ emitted' = <<Event("jobCreated", Len(jobs) + 1)>>
    /\ result' = NoResult
    /\ UNCHANGED <<adapters, calls, nCalls, shadowTables, replicationStreams>>
    /\ UNCHANGED <<managerVars, copyVars, dataVars>>

\* this.jobs.get(jobId) finds a job.
Known(j) == j \in 1..Len(jobs)

\* ------------------------------------------------------------- pause / resume
\* A slip: a job that has not been started can be paused too.
CanPauseAlsoPending(j) == Known(j) /\ jobs[j].status \in {"running", "pending"}

CanPause(j) == Known(j) /\ jobs[j].status = "running"

PausedJob(job) ==
    [job EXCEPT !.status = "paused",
                !.logs = Append(@, Log("info", "Migration paused", NoError))]

PauseMigration(j) ==
    /\ CanCall
    /\ nCalls' = nCalls + 1
    /\ IF CanPause(j)
       THEN /\ jobs' = [jobs EXCEPT ![j] = PausedJob(@)]
            /\ emitted' = <<Event("jobPaused", j)>>
            /\ result' = Returned(nCalls', "pause", j)
       ELSE /\ result' = Raised(nCalls', "pause", j, PlainMsg("Cannot pause job"))
            /\ emitted' = <<>>
            /\ UNCHANGED jobs
    /\ UNCHANGED <<adapters, calls, shadowTables, replicationStreams>>
    /\ UNCHANGED <<managerVars, copyVars, dataVars>>

\* A slip: the status is not looked at.
CanResumeAnyStatus(j) == Known(j)

CanResume(j) == Known(j) /\ jobs[j].status = "paused"

ResumedJob(job) ==
    [job EXCEPT !.status = "running",
                !.logs = Append(@, Log("info", "Migration resumed", NoError))]

ResumeMigration(j) ==
    /\ CanCall
    /\ nCalls' = nCalls + 1
    /\ IF CanResume(j)
       THEN /\ jobs' = [jobs EXCEPT ![j] = ResumedJob(@)]
            /\ emitted' = <<Event("jobResumed", j)>>
            /\ result' = Returned(nCalls', "resume", j)
       ELSE /\ result' = Raised(nCalls', "resume", j, PlainMsg("Cannot resume job"))
            /\ emitted' = <<>>
            /\ UNCHANGED jobs
    /\ UNCHANGED <<adapters, calls, shadowTables, replicationStreams>>
    /\ UNCHANGED <<managerVars, copyVars, dataVars>>

\* ------------------------------------------------------------- adapters
\* getAdapter resolves the source first for startMigration and the target
\* first for rollbackMigration.
FirstKey(op, job) ==
    IF op = "rollback" THEN job.targetDatabase ELSE job.sourceDatabase

SecondKey(op, job) ==
    IF op = "rollback" THEN job.sourceDatabase ELSE job.targetDatabase

\* A slip: the downtime path starts with the copy.
FirstPhaseCopy(op, job) ==
    IF op = "rollback" THEN "rollbackSchema"
    ELSE IF job.strategy.downtime THEN "migrateData" ELSE "setupShadowWrites"

\* The first awaited phase once both adapters are resolved.
FirstPhase(op, job) ==
    IF op = "rollback" THEN "rollbackSchema"
    ELSE IF job.strategy.downtime THEN "migrateSchema" ELSE "setupShadowWrites"

\* getAdapter: a cached key returns at once, another one awaits connect().
AfterFirstAdapter(op, job, cache) ==
    IF SecondKey(op, job) \in cache THEN FirstPhase(op, job) ELSE "connect2"

AfterEntry(op, job, cache) ==
    IF FirstKey(op, job) \in cache THEN AfterFirstAdapter(op, job, cache) ELSE "connect1"

\* executeMigration after both adapters: the two log entries that precede
\* the first phase.
PathLog(job) ==
    IF job.strategy.downtime
    THEN Log("warn", "Executing migration with planned downtime", NoError)
    ELSE Log("info", "Executing zero-downtime migration", NoError)

EnterPhases(op, job, pc) ==
    IF op = "start" /\ pc = FirstPhase(op, job)
    THEN [job EXCEPT !.logs = @ \o <<Log("info", "Initializing database connections", NoError),
                                     PathLog(job)>>]
    ELSE job

\* ------------------------------------------------------------- failure
\* `error instanceof Error ? error.message : fallback`
ErrorMessage(thrown, fallback) ==
    IF thrown.isError THEN thrown.message ELSE PlainMsg(fallback)

\* A slip: the catch block records the message and leaves the status.
FailedJobStatusKept(job, thrown) ==
    LET msg == ErrorMessage(thrown, "Unknown error") IN
    [job EXCEPT !.error = msg,
                !.logs = Append(@, Log("error", "Migration failed: ", msg))]

\* The catch block of startMigration.
FailedJob(job, thrown) ==
    LET msg == ErrorMessage(thrown, "Unknown error") IN
    [job EXCEPT !.status = "failed",
                !.error = msg,
                !.logs = Append(@, Log("error", "Migration failed: ", msg))]

\* A slip: the catch block records the message and leaves the status.
RollbackFailedJobStatusKept(job, thrown) ==
    [job EXCEPT !.error = ErrorMessage(thrown, "Rollback failed")]

\* A slip: the catch block sets the status and records no message.
RollbackFailedJobNoMessage(job, thrown) == [job EXCEPT !.status = "failed"]

\* The catch block of rollbackMigration.
RollbackFailedJob(job, thrown) ==
    [job EXCEPT !.status = "failed",
                !.error = ErrorMessage(thrown, "Rollback failed")]

\* A phase of call c throws: the catch block of the operation runs and the
\* error is thrown on to the caller.
Raise(c, thrown) ==
    LET j == calls[c].job IN
    /\ jobs' = [jobs EXCEPT ![j] = IF calls[c].op = "rollback"
                                   THEN RollbackFailedJob(@, thrown)
                                   ELSE FailedJob(@, thrown)]
    /\ emitted' = <<Event("jobFailed", j)>>
    /\ result' = Raised(c, calls[c].op, j, thrown.message)
    /\ calls' = Remove(c)

\* ------------------------------------------------------------- startMigration
StartedJob(job, now) ==
    [job EXCEPT !.status = "running",
                !.startTime = now,
                !.logs = Append(@, Log("info", "Starting migration with strategy", NoError))]

StartMigration(j) ==
    /\ CanCall
    /\ nCalls' = nCalls + 1
    /\ IF Known(j)
       THEN LET started == StartedJob(jobs[j], Now(nCalls'))
                pc == AfterEntry("start", started, adapters)
            IN /\ CanSuspend
               /\ jobs' = [jobs EXCEPT ![j] = EnterPhases("start", started, pc)]
               /\ emitted' = <<Event("jobStarted", j)>>
               /\ calls' = Suspend(nCalls', "start", j, pc)
               /\ result' = NoResult
       ELSE /\ result' = Raised(nCalls', "start", j, PlainMsg("Migration job not found"))
            /\ emitted' = <<>>
            /\ UNCHANGED <<jobs, calls>>
    /\ UNCHANGED <<adapters, shadowTables, replicationStreams>>
    /\ UNCHANGED <<managerVars, copyVars, dataVars>>

\* adapter.connect() of getAdapter ends: the adapter is cached, or the
\* connection error goes to the catch block.
ConnectAdapter(c) ==
    /\ InFlight(c)
    /\ calls[c].pc \in {"connect1", "connect2"}
    /\ LET op == calls[c].op
           j == calls[c].job
           key == IF calls[c].pc = "connect1" THEN FirstKey(op, jobs[j])
                                              ELSE SecondKey(op, jobs[j])
       IN \/ LET cache == adapters \cup {key}
                 pc == IF calls[c].pc = "connect1"
                       THEN AfterFirstAdapter(op, jobs[j], cache)
                       ELSE FirstPhase(op, jobs[j])
             IN /\ adapters' = cache
                /\ jobs' = [jobs EXCEPT ![j] = EnterPhases(op, @, pc)]
                /\ calls' = [calls EXCEPT ![c].pc = pc]
                /\ emitted' = <<>>
                /\ result' = NoResult
          \/ /\ Raise(c, Thrown(PlainMsg("Failed to connect")))
             /\ UNCHANGED adapters
    /\ UNCHANGED <<nCalls, shadowTables, replicationStreams>>
    /\ UNCHANGED <<managerVars, copyVars, dataVars>>

\* ------------------------------------------------------------- phases
SetProgress(job, p) == [job EXCEPT !.progress = p]

\* A phase of call c returns: the job is updated, the call awaits the next phase.
Proceed(c, job, pc) ==
    /\ jobs' = [jobs EXCEPT ![calls[c].job] = job]
    /\ calls' = [calls EXCEPT ![c].pc = pc]
    /\ emitted' = <<>>
    /\ result' = NoResult

\* DataMigrator: progressCallback((completedTables / totalTables) * 100)
TableProgress(completedTables, totalTables) == Rat(100 * completedTables, totalTables)

\* A slip: the callback's percentage is added unscaled.
DowntimeProgressUnscaled(progress) == RAdd(Rat(30, 1), progress)

\* executeWithDowntime: job.progress = 30 + (progress * 0.6)
DowntimeProgress(progress) == RAdd(Rat(30, 1), RMul(progress, Rat(6, 10)))

\* executeZeroDowntime: job.progress = 30 + (progress * 0.5)
ZeroDowntimeProgress(progress) == RAdd(Rat(30, 1), RMul(progress, Rat(5, 10)))

\* A slip: the zero-downtime path scales the callback as the downtime path does.
CopyProgressDowntimeScale(job, progress) == DowntimeProgress(progress)

CopyProgress(job, progress) ==
    IF job.strategy.downtime THEN DowntimeProgress(progress)
                             ELSE ZeroDowntimeProgress(progress)

\* What getFullSchema finds on the source: the tables of the job's schema.
SourceTables(job) == job.schema

\* ZeroDowntimeManager.setupShadowWrites.  The source holds the tables
\* 1..m; failedAt = 0: getFullSchema throws; failedAt in 1..m: createTable
\* or setupTriggers of that table throws, after the table was put in
\* shadowTables and before its stream was set up; failedAt > m: no failure.
ShadowMapped(m, failedAt) == 1..(IF failedAt > m THEN m ELSE failedAt)

StreamsSetUp(m, failedAt) == 1..(IF failedAt > m THEN m ELSE failedAt - 1)

SetupShadowWrites(c) ==
    /\ InFlight(c)
    /\ calls[c].pc = "setupShadowWrites"
    /\ \E m \in {SourceTables(jobs[calls[c].job])}, failedAt \in 0..(MaxTables + 1) :
         /\ failedAt <= m + 1
         /\ shadowTables' = shadowTables \cup ShadowMapped(m, failedAt)
         /\ replicationStreams' =
              [t \in DOMAIN replicationStreams \cup StreamsSetUp(m, failedAt) |->
                  IF t \in StreamsSetUp(m, failedAt) THEN TRUE ELSE replicationStreams[t]]
         /\ IF failedAt > m
            THEN Proceed(c, SetProgress(jobs[calls[c].job], Rat(10, 1)), "migrateSchema")
            ELSE Raise(c, Thrown(PlainMsg("Shadow setup failed")))
    /\ UNCHANGED <<adapters, nCalls>>
    /\ UNCHANGED <<managerVars, copyVars, dataVars>>

\* SchemaEvolution.migrateSchema returns or throws; then job.progress = 30
\* and the copy starts.
MigrateSchema(c) ==
    /\ InFlight(c)
    /\ calls[c].pc = "migrateSchema"
    /\ \/ Proceed(c, SetProgress(jobs[calls[c].job], Rat(30, 1)), "migrateData")
       \/ Raise(c, Thrown(PlainMsg("Schema migration failed")))
    /\ UNCHANGED <<adapters, nCalls, shadowTables, replicationStreams>>
    /\ UNCHANGED <<managerVars, copyVars, dataVars>>

\* One pass of the loop of migrateData / migrateDataIncremental: the copy of
\* the next table returns and the progress callback runs, or the copy throws.
MigrateTable(c) ==
    /\ InFlight(c)
    /\ calls[c].pc = "migrateData"
    /\ LET j == calls[c].job
           totalTables == jobs[j].schema
           completedTables == calls[c].completedTables + 1
       IN /\ calls[c].completedTables < totalTables
          /\ \/ /\ jobs' = [jobs EXCEPT ![j] =
                       SetProgress(@, CopyProgress(@, TableProgress(completedTables, totalTables)))]
                /\ emitted' = <<Event("jobProgress", j)>>
                /\ calls' = [calls EXCEPT ![c].completedTables = completedTables]
                /\ result' = NoResult
             \/ Raise(c, Thrown(PlainMsg("Data copy failed")))
    /\ UNCHANGED <<adapters, nCalls, shadowTables, replicationStreams>>
    /\ UNCHANGED <<managerVars, copyVars, dataVars>>

\* The copy has returned: job.progress = 90 and validation starts, or
\* job.progress = 80 and cutover starts.
MigrateDataReturn(c) ==
    /\ InFlight(c)
    /\ calls[c].pc = "migrateData"
    /\ LET job == jobs[calls[c].job] IN
       /\ calls[c].completedTables = job.schema
       /\ IF job.strategy.downtime
          THEN Proceed(c, SetProgress(job, Rat(90, 1)), "validateMigration")
          ELSE Proceed(c, SetProgress(job, Rat(80, 1)), "cutover")
    /\ UNCHANGED <<adapters, nCalls, shadowTables, replicationStreams>>
    /\ UNCHANGED <<managerVars, copyVars, dataVars>>

\* finalSync sets isActive = false on the streams of the tables it has reached.
Deactivate(streams, reached) ==
    [t \in DOMAIN streams |-> IF t \in reached THEN FALSE ELSE streams[t]]

\* What cutover throws after rollbackCutover ran: the error of the failed
\* step, or the error of targetAdapter.rollback() thrown inside
\* rollbackCutover's own catch block.
CutoverThrows(msg) == {Thrown(msg), Thrown(PlainMsg("Transaction rollback failed"))}

\* ZeroDowntimeManager.cutover, with shadowTables iterated in insertion order
\* (ascending table number).  It throws from validateShadowData (a count
\* mismatch on a mapped table, or a failing getCount), from finalSync at some
\* mapped table, or from renameTables; enableMaintenanceMode and
\* disableMaintenanceMode swallow their failures.
Cutover(c) ==
    /\ InFlight(c)
    /\ calls[c].pc = "cutover"
    /\ \/ /\ \E t \in shadowTables, sc \in Counts, tc \in Counts :
               /\ sc # tc
               /\ \E e \in CutoverThrows(Msg("Data validation failed for", t, sc, tc)) :
                    Raise(c, e)
          /\ UNCHANGED replicationStreams
       \/ /\ \E e \in CutoverThrows(PlainMsg("Query failed")) : Raise(c, e)
          /\ UNCHANGED replicationStreams
       \/ \E t \in shadowTables :
            /\ replicationStreams' = Deactivate(replicationStreams, 1..t)
            /\ \E e \in CutoverThrows(PlainMsg("Final sync failed")) : Raise(c, e)
       \/ /\ replicationStreams' = Deactivate(replicationStreams, shadowTables)
          /\ \E e \in CutoverThrows(PlainMsg("Rename failed")) : Raise(c, e)
       \/ /\ replicationStreams' = Deactivate(replicationStreams, shadowTables)
          /\ Proceed(c, SetProgress(jobs[calls[c].job], Rat(95, 1)), "validateMigration")
    /\ UNCHANGED <<adapters, nCalls, shadowTables>>
    /\ UNCHANGED <<managerVars, copyVars, dataVars>>

\* A slip: only a target that holds fewer rows than the source is a failure.
CountsMatchOrMore(sourceCount, targetCount) == sourceCount <= targetCount

\* validateMigration: `sourceCount !== targetCount` is false.
CountsMatch(sourceCount, targetCount) == sourceCount = targetCount

\* One pass of the loop of validateMigration: both counts of the next table
\* are read and compared, or a getCount throws.
ValidateTable(c) ==
    /\ InFlight(c)
    /\ calls[c].pc = "validateMigration"
    /\ LET j == calls[c].job
           table == Len(calls[c].checked) + 1
       IN /\ table \in SchemaTables(jobs[j])
          /\ \/ \E sourceCount \in Counts, targetCount \in Counts :
                  IF CountsMatch(sourceCount, targetCount)
                  THEN /\ calls' = [calls EXCEPT ![c].checked =
                                       Append(@, <<sourceCount, targetCount>>)]
                       /\ emitted' = <<>>
                       /\ result' = NoResult
                       /\ UNCHANGED jobs
                  ELSE Raise(c, Thrown(Msg("Data validation failed for table",
                                           table, sourceCount, targetCount)))
             \/ Raise(c, Thrown(PlainMsg("Query failed")))
    /\ UNCHANGED <<adapters, nCalls, shadowTables, replicationStreams>>
    /\ UNCHANGED <<managerVars, copyVars, dataVars>>

\* The tail of executeMigration.
CompletedJob(job, now) ==
    [job EXCEPT !.status = "completed",
                !.endTime = now,
                !.progress = Rat(100, 1),
                !.logs = Append(@, Log("info", "Migration completed successfully", NoError))]

\* validateMigration has returned: job.progress = 100, executeMigration marks
\* the job completed and startMigration returns.
Complete(c) ==
    /\ InFlight(c)
    /\ calls[c].pc = "validateMigration"
    /\ LET j == calls[c].job IN
       /\ Len(calls[c].checked) = jobs[j].schema
       /\ jobs' = [jobs EXCEPT ![j] = CompletedJob(SetProgress(@, Rat(100, 1)), Now(nCalls))]
       /\ emitted' = <<Event("jobCompleted", j)>>
       /\ result' = Returned(c, "start", j)
       /\ calls' = Remove(c)
    /\ UNCHANGED <<adapters, nCalls, shadowTables, replicationStreams>>
    /\ UNCHANGED <<managerVars, copyVars, dataVars>>

\* ------------------------------------------------------------- rollbackMigration
\* A slip: the strategy's flag is not looked at.
RollbackAllowedAlways(j) == Known(j)

RollbackAllowed(j) == Known(j) /\ jobs[j].strategy.rollbackSupported

RollbackStartedJob(job) ==
    [job EXCEPT !.status = "running",
                !.logs = Append(@, Log("warn", "Starting rollback", NoError))]

RollbackMigration(j) ==
    /\ CanCall
    /\ nCalls' = nCalls + 1
    /\ IF RollbackAllowed(j)
       THEN /\ CanSuspend
            /\ jobs' = [jobs EXCEPT ![j] = RollbackStartedJob(@)]
            /\ calls' = Suspend(nCalls', "rollback", j,
                                AfterEntry("rollback", jobs[j], adapters))
            /\ result' = NoResult
       ELSE /\ result' = Raised(nCalls', "rollback", j,
                                PlainMsg("Rollback not supported for job"))
            /\ UNCHANGED <<jobs, calls>>
    /\ emitted' = <<>>
    /\ UNCHANGED <<adapters, shadowTables, replicationStreams>>
    /\ UNCHANGED <<managerVars, copyVars, dataVars>>

\* SchemaEvolution.rollbackSchema returns or throws.
RollbackSchema(c) ==
    /\ InFlight(c)
    /\ calls[c].pc = "rollbackSchema"
    /\ \/ Proceed(c, jobs[calls[c].job], "rollbackData")
       \/ Raise(c, Thrown(PlainMsg("Schema rollback failed")))
    /\ UNCHANGED <<adapters, nCalls, shadowTables, replicationStreams>>
    /\ UNCHANGED <<managerVars, copyVars, dataVars>>

RollbackCompletedJob(job) ==
    [job EXCEPT !.status = "completed",
                !.logs = Append(@, Log("info", "Rollback completed successfully", NoError))]

\* DataMigrator.rollbackData returns (clearTableData swallows every failure
\* of its delete command); the job is marked completed.
RollbackData(c) ==
    /\ InFlight(c)
    /\ calls[c].pc = "rollbackData"
    /\ LET j == calls[c].job IN
       /\ jobs' = [jobs EXCEPT ![j] = RollbackCompletedJob(@)]
       /\ emitted' = <<Event("jobRollback", j)>>
       /\ result' = Returned(c, "rollback", j)
       /\ calls' = Remove(c)
    /\ UNCHANGED <<adapters, nCalls, shadowTables, replicationStreams>>
    /\ UNCHANGED <<managerVars, copyVars, dataVars>>

\* ------------------------------------------------------------- target database
\* The tables of the target are known by name: a table's live name, its
\* shadow name `${table}_shadow` and its backup names
\* `${table}_backup_${Date.now()}`.
LiveName(t) == [kind |-> "live", table |-> t, stamp |-> 0]

ShadowName(t) == [kind |-> "shadow", table |-> t, stamp |-> 0]

BackupName(t, now) == [kind |-> "backup", table |-> t, stamp |-> now]

Stamps == 1..MaxClock

Names ==
    {LiveName(t) : t \in 1..MaxTables} \cup {ShadowName(t) : t \in 1..MaxTables}
        \cup {BackupName(t, now) : t \in 1..MaxTables, now \in Stamps}

\* A transaction on the adapter's one connection: BEGIN / START TRANSACTION
\* opens it on a copy of the committed tables, COMMIT publishes the copy,
\* ROLLBACK drops it; a statement that fails inside it aborts it, and every
\* further statement fails until it is rolled back.
NoTxn == [state |-> "none", work |-> [n \in Names |-> "none"]]

\* The tables the connection sees.
View == IF txn.state = "none" THEN catalog ELSE txn.work

\* `ALTER TABLE from RENAME TO to` can succeed: from exists and to does not.
CanRename(from, to) ==
    /\ txn.state # "aborted"
    /\ View[from] # "none"
    /\ View[to] = "none"

Renamed(tables, from, to) == [tables EXCEPT ![to] = tables[from], ![from] = "none"]

\* executeQuery of an ALTER TABLE ... RENAME returns.
AlterReturns(from, to) ==
    /\ CanRename(from, to)
    /\ IF txn.state = "none"
       THEN catalog' = Renamed(catalog, from, to) /\ UNCHANGED txn
       ELSE txn' = [txn EXCEPT !.work = Renamed(@, from, to)] /\ UNCHANGED catalog

\* executeQuery of a statement throws (the statement is refused, or the
\* backend fails): nothing is renamed, an open transaction is aborted.
StatementThrows ==
    /\ txn' = IF txn.state = "none" THEN txn ELSE [txn EXCEPT !.state = "aborted"]
    /\ UNCHANGED catalog

\* A slip: beginTransaction() opens no transaction (every statement that
\* follows takes effect at once).
BeginWithoutTransaction == UNCHANGED <<catalog, txn>>

\* beginTransaction() returns.
BeginReturns ==
    /\ txn' = IF txn.state = "none" THEN [state |-> "open", work |-> catalog] ELSE txn
    /\ UNCHANGED catalog

\* commit() returns: the work of an open transaction becomes visible, an
\* aborted transaction is rolled back.
CommitReturns ==
    /\ catalog' = IF txn.state = "open" THEN txn.work ELSE catalog
    /\ txn' = NoTxn

\* rollback() returns.
RollbackReturns ==
    /\ txn' = NoTxn
    /\ UNCHANGED catalog

\* Date.now(): the clock has not gone back since it was last read.
Instants == {now \in Stamps : now >= clock}

\* ------------------------------------------------------------- cutover, step by step
\* The variables of MigrationEngine that ZeroDowntimeManager does not touch.
jobVars == <<jobs, adapters, calls, nCalls, result, emitted>>

\* No cutover call is in flight.  A call in flight: the await it is suspended
\* at, the table its loop is at, the stamp of backupTable, the error its catch
\* block holds; and, for the properties below, whether its
\* enableMaintenanceMode query went through and what the target held when
\* it was called.
Idle ==
    [pc |-> "idle", table |-> 0, stamp |-> 0, error |-> NoError,
     entered |-> FALSE, before |-> <<>>]

\* The mapped table that `for (... of this.shadowTables)` visits after table t
\* (0: none is left); t = 0 gives the first one.
NextTable(t) ==
    LET later == {u \in shadowTables : u > t}
    IN IF later = {} THEN 0 ELSE CHOOSE u \in later : \A v \in later : u <= v

Await(pc, t) == [cutoverCall EXCEPT !.pc = pc, !.table = t]

NothingDone == [kind |-> "none", table |-> 0]

\* An EventEmitter calls its listeners inside emit(): a listener that throws
\* makes emit() throw.
ListenerError == PlainMsg("Listener failed")

\* The cutover call ends: it returns, or it throws err.
CutoverReturns ==
    /\ cutoverCall' = Idle
    /\ outcome' = [call |-> outcome.call + 1, ended |-> "returned", error |-> NoError]

\* `this.emit('cutoverFailed', error); throw error;`
CutoverRaises(err) ==
    /\ cutoverCall' = Idle
    /\ \E e \in {err, ListenerError} :
         outcome' = [call |-> outcome.call + 1, ended |-> "raised", error |-> e]

\* The try block of cutover throws err: rollbackCutover starts and awaits
\* beginTransaction().
Caught(err) ==
    cutoverCall' = [cutoverCall EXCEPT !.pc = "rollbackBegin", !.table = 0, !.error = err]

\* cutover is called: `this.emit('cutoverStarted')`, then validateShadowData
\* awaits the counts of the first mapped table (with no table mapped,
\* enableMaintenanceMode awaits its query).
CutoverStart ==
    /\ cutoverCall.pc = "idle"
    /\ outcome.call < MaxCutovers
    /\ issued' = {}
    /\ did' = NothingDone
    /\ \/ /\ cutoverCall' = [Idle EXCEPT
                 !.pc = IF NextTable(0) = 0 THEN "enableMaintenanceMode"
                                            ELSE "validateShadowData",
                 !.table = NextTable(0),
                 !.before = catalog]
          /\ UNCHANGED outcome
       \/ /\ cutoverCall' = Idle
          /\ outcome' = [call |-> outcome.call + 1, ended |-> "raised", error |-> ListenerError]
    /\ UNCHANGED <<catalog, txn, maintenance, clock, pollers>>
    /\ UNCHANGED <<jobVars, shadowTables, replicationStreams, copyVars, dataVars>>

\* validateShadowData: the two counts of the table are read and compared, or
\* a getCount throws (as it does when the shadow table does not exist).
ValidateShadowData ==
    /\ cutoverCall.pc = "validateShadowData"
    /\ LET t == cutoverCall.table IN
       \/ \E sourceCount \in Counts, shadowCount \in Counts :
            /\ View[ShadowName(t)] # "none"
            /\ IF sourceCount # shadowCount
               THEN Caught(Msg("Data validation failed for", t, sourceCount, shadowCount))
               ELSE cutoverCall' = IF NextTable(t) = 0
                                   THEN Await("enableMaintenanceMode", 0)
                                   ELSE Await("validateShadowData", NextTable(t))
       \/ Caught(PlainMsg("Query failed"))
    /\ did' = NothingDone
    /\ UNCHANGED <<outcome, catalog, txn, maintenance, issued, clock, pollers>>
    /\ UNCHANGED <<jobVars, shadowTables, replicationStreams, copyVars, dataVars>>

\* `replicationStream.isActive = false` on the stream objects that the map
\* holds for the tables reached.
Stopped(reached) ==
    [t \in DOMAIN pollers |->
        IF t \in reached \cap DOMAIN replicationStreams
        THEN [pollers[t] EXCEPT !.isActive = FALSE] ELSE pollers[t]]

\* enableMaintenanceMode: its query returns, or throws and the failure is
\* swallowed; then finalSync starts: the first table's stream is set
\* inactive and getChangesSince is awaited.
EnableMaintenanceMode ==
    /\ cutoverCall.pc = "enableMaintenanceMode"
    /\ \E entered \in BOOLEAN :
         /\ maintenance' = (maintenance \/ entered)
         /\ replicationStreams' = Deactivate(replicationStreams, {NextTable(0)})
         /\ pollers' = Stopped({NextTable(0)})
         /\ cutoverCall' = [cutoverCall EXCEPT
                !.entered = entered,
                !.pc = IF NextTable(0) = 0 THEN "renameBegin" ELSE "finalSync",
                !.table = NextTable(0)]
    /\ did' = NothingDone
    /\ UNCHANGED <<outcome, catalog, txn, issued, clock>>
    /\ UNCHANGED <<jobVars, shadowTables, copyVars, dataVars>>

\* One pass of the loop of finalSync: getChangesSince returns no change, or
\* it returns changes and they are inserted into the shadow table, or a query
\* or the insert throws.  A pass that returns sets the next table's stream
\* inactive.
FinalSync ==
    /\ cutoverCall.pc = "finalSync"
    /\ LET t == cutoverCall.table IN
       \/ /\ \E changes \in BOOLEAN :
               did' = IF changes THEN [kind |-> "syncInsert", table |-> t] ELSE NothingDone
          /\ replicationStreams' = Deactivate(replicationStreams, {NextTable(t)})
          /\ pollers' = Stopped({NextTable(t)})
          /\ cutoverCall' = IF NextTable(t) = 0 THEN Await("renameBegin", 0)
                                                ELSE Await("finalSync", NextTable(t))
       \/ /\ Caught(PlainMsg("Final sync failed"))
          /\ did' = NothingDone
          /\ UNCHANGED <<replicationStreams, pollers>>
    /\ UNCHANGED <<outcome, catalog, txn, maintenance, issued, clock>>
    /\ UNCHANGED <<jobVars, shadowTables, copyVars, dataVars>>

\* A rename statement that cutover issues to the target.
Rename(from, to) == [from |-> from, to |-> to]

\* renameTables: beginTransaction() returns and the loop issues its first
\* rename, or it throws (outside the try block: no rollback() is issued).
RenameBegin ==
    /\ cutoverCall.pc = "renameBegin"
    /\ \/ /\ BeginReturns
          /\ cutoverCall' = IF NextTable(0) = 0 THEN Await("renameCommit", 0)
                                                ELSE Await("renameToBackup", NextTable(0))
       \/ /\ Caught(PlainMsg("Begin failed"))
          /\ UNCHANGED <<catalog, txn>>
    /\ did' = NothingDone
    /\ UNCHANGED <<outcome, maintenance, issued, clock, pollers>>
    /\ UNCHANGED <<jobVars, shadowTables, replicationStreams, copyVars, dataVars>>

\* `ALTER TABLE ${originalTable} RENAME TO ${originalTable}_backup_${Date.now()}`
RenameToBackup ==
    /\ cutoverCall.pc = "renameToBackup"
    /\ LET t == cutoverCall.table IN
       \E now \in Instants :
         /\ clock' = now
         /\ issued' = issued \cup {Rename(LiveName(t), BackupName(t, now))}
         /\ did' = [kind |-> "rename", table |-> t]
         /\ \/ /\ AlterReturns(LiveName(t), BackupName(t, now))
               /\ cutoverCall' = Await("renameToLive", t)
            \/ /\ StatementThrows
               /\ cutoverCall' = [cutoverCall EXCEPT !.pc = "renameRollback",
                                                     !.error = PlainMsg("Rename failed")]
    /\ UNCHANGED <<outcome, maintenance, pollers>>
    /\ UNCHANGED <<jobVars, shadowTables, replicationStreams, copyVars, dataVars>>

\* `ALTER TABLE ${shadowTable} RENAME TO ${originalTable}`
RenameToLive ==
    /\ cutoverCall.pc = "renameToLive"
    /\ LET t == cutoverCall.table IN
         /\ issued' = issued \cup {Rename(ShadowName(t), LiveName(t))}
         /\ did' = [kind |-> "rename", table |-> t]
         /\ \/ /\ AlterReturns(ShadowName(t), LiveName(t))
               /\ cutoverCall' = IF NextTable(t) = 0 THEN Await("renameCommit", 0)
                                                     ELSE Await("renameToBackup", NextTable(t))
            \/ /\ StatementThrows
               /\ cutoverCall' = [cutoverCall EXCEPT !.pc = "renameRollback",
                                                     !.error = PlainMsg("Rename failed")]
    /\ UNCHANGED <<outcome, maintenance, clock, pollers>>
    /\ UNCHANGED <<jobVars, shadowTables, replicationStreams, copyVars, dataVars>>

\* commit() of renameTables returns, and updateApplicationConnections emits
\* connectionsUpdated; or commit() throws and the catch block awaits rollback().
RenameCommit ==
    /\ cutoverCall.pc = "renameCommit"
    /\ \/ /\ CommitReturns
          /\ \/ cutoverCall' = Await("disableMaintenanceMode", 0)
             \/ Caught(ListenerError)
       \/ /\ cutoverCall' = [cutoverCall EXCEPT !.pc = "renameRollback",
                                                !.error = PlainMsg("Commit failed")]
          /\ UNCHANGED <<catalog, txn>>
    /\ did' = NothingDone
    /\ UNCHANGED <<outcome, maintenance, issued, clock, pollers>>
    /\ UNCHANGED <<jobVars, shadowTables, replicationStreams, copyVars, dataVars>>

\* The catch block of renameTables: rollback() returns and the error of the
\* failed step is thrown on, or rollback() throws.
RenameRollback ==
    /\ cutoverCall.pc = "renameRollback"
    /\ \/ /\ RollbackReturns
          /\ Caught(cutoverCall.error)
       \/ /\ Caught(PlainMsg("Transaction rollback failed"))
          /\ UNCHANGED <<catalog, txn>>
    /\ did' = NothingDone
    /\ UNCHANGED <<outcome, maintenance, issued, clock, pollers>>
    /\ UNCHANGED <<jobVars, shadowTables, replicationStreams, copyVars, dataVars>>

\* disableMaintenanceMode of cutover: its query returns, or throws and the
\* failure is swallowed; then cutoverCompleted is emitted and cutover returns.
DisableMaintenanceMode ==
    /\ cutoverCall.pc = "disableMaintenanceMode"
    /\ \E disabled \in BOOLEAN : maintenance' = (maintenance /\ ~disabled)
    /\ \/ CutoverReturns
       \/ Caught(ListenerError) /\ UNCHANGED outcome
    /\ did' = NothingDone
    /\ UNCHANGED <<catalog, txn, issued, clock, pollers>>
    /\ UNCHANGED <<jobVars, shadowTables, replicationStreams, copyVars, dataVars>>

\* ------------------------------------------------------------- rollbackCutover
\* beginTransaction() of rollbackCutover returns and the loop issues its first
\* rename, or it throws and the catch block awaits rollback().
RollbackBegin ==
    /\ cutoverCall.pc = "rollbackBegin"
    /\ \/ /\ BeginReturns
          /\ cutoverCall' = IF NextTable(0) = 0 THEN Await("rollbackCommit", 0)
                                                ELSE Await("rollbackToShadow", NextTable(0))
       \/ /\ cutoverCall' = Await("rollbackRollback", 0)
          /\ UNCHANGED <<catalog, txn>>
    /\ did' = NothingDone
    /\ UNCHANGED <<outcome, maintenance, issued, clock, pollers>>
    /\ UNCHANGED <<jobVars, shadowTables, replicationStreams, copyVars, dataVars>>

\* `ALTER TABLE ${originalTable} RENAME TO ${shadowTable}`, after
\* backupTable = `${originalTable}_backup_${Date.now()}` was computed.
RollbackToShadow ==
    /\ cutoverCall.pc = "rollbackToShadow"
    /\ LET t == cutoverCall.table IN
       \E now \in Instants :
         /\ clock' = now
         /\ issued' = issued \cup {Rename(LiveName(t), ShadowName(t))}
         /\ did' = [kind |-> "rename", table |-> t]
         /\ \/ /\ AlterReturns(LiveName(t), ShadowName(t))
               /\ cutoverCall' = [cutoverCall EXCEPT !.pc = "rollbackToLive", !.stamp = now]
            \/ /\ StatementThrows
               /\ cutoverCall' = Await("rollbackRollback", 0)
    /\ UNCHANGED <<outcome, maintenance, pollers>>
    /\ UNCHANGED <<jobVars, shadowTables, replicationStreams, copyVars, dataVars>>

\* `ALTER TABLE ${backupTable} RENAME TO ${originalTable}`
RollbackToLive ==
    /\ cutoverCall.pc = "rollbackToLive"
    /\ LET t == cutoverCall.table
           backupTable == BackupName(t, cutoverCall.stamp)
       IN /\ issued' = issued \cup {Rename(backupTable, LiveName(t))}
          /\ did' = [kind |-> "rename", table |-> t]
          /\ \/ /\ AlterReturns(backupTable, LiveName(t))
                /\ cutoverCall' = IF NextTable(t) = 0 THEN Await("rollbackCommit", 0)
                                                      ELSE Await("rollbackToShadow", NextTable(t))
             \/ /\ StatementThrows
                /\ cutoverCall' = Await("rollbackRollback", 0)
    /\ UNCHANGED <<outcome, maintenance, clock, pollers>>
    /\ UNCHANGED <<jobVars, shadowTables, replicationStreams, copyVars, dataVars>>

\* commit() of rollbackCutover returns and disableMaintenanceMode awaits its
\* query, or commit() throws.
RollbackCommit ==
    /\ cutoverCall.pc = "rollbackCommit"
    /\ \/ /\ CommitReturns
          /\ cutoverCall' = Await("rollbackDisable", 0)
       \/ /\ cutoverCall' = Await("rollbackRollback", 0)
          /\ UNCHANGED <<catalog, txn>>
    /\ did' = NothingDone
    /\ UNCHANGED <<outcome, maintenance, issued, clock, pollers>>
    /\ UNCHANGED <<jobVars, shadowTables, replicationStreams, copyVars, dataVars>>

\* disableMaintenanceMode of rollbackCutover (a failure of its query is
\* swallowed); rollbackCutover returns and cutover throws what it caught.
RollbackDisable ==
    /\ cutoverCall.pc = "rollbackDisable"
    /\ \E disabled \in BOOLEAN : maintenance' = (maintenance /\ ~disabled)
    /\ CutoverRaises(cutoverCall.error)
    /\ did' = NothingDone
    /\ UNCHANGED <<catalog, txn, issued, clock, pollers>>
    /\ UNCHANGED <<jobVars, shadowTables, replicationStreams, copyVars, dataVars>>

\* The catch block of rollbackCutover: rollback() returns, the failure is
\* written to the console and cutover throws what it caught; or rollback()
\* throws, and cutover throws that instead.
RollbackRollback ==
    /\ cutoverCall.pc = "rollbackRollback"
    /\ \/ /\ RollbackReturns
          /\ CutoverRaises(cutoverCall.error)
       \/ /\ cutoverCall' = Idle
          /\ outcome' = [call |-> outcome.call + 1, ended |-> "raised",
                         error |-> PlainMsg("Transaction rollback failed")]
          /\ UNCHANGED <<catalog, txn>>
    /\ did' = NothingDone
    /\ UNCHANGED <<maintenance, issued, clock, pollers>>
    /\ UNCHANGED <<jobVars, shadowTables, replicationStreams, copyVars, dataVars>>

\* ------------------------------------------------------------- shadow setup, polling, cleanup
\* A stream's polling loop: the isActive flag of the stream object its
\* closure holds, the interval timer, and the ticks that await
\* getChangesSince or insertData.
Poller(isActive, timer) ==
    [isActive |-> isActive, timer |-> timer, querying |-> 0, inserting |-> 0]

\* setupShadowWrites as in SetupShadowWrites above, acting on the target: the
\* shadow table of every table whose stream is set up has been created
\* (createTable throws when the name is taken), and startReplicationPolling
\* has started the stream's timer.  A table's stream is set up again only
\* once its earlier polling loop has stopped.
ManagerSetupShadowWrites ==
    /\ cutoverCall.pc = "idle"
    /\ txn.state = "none"
    /\ \E m \in 0..MaxTables, failedAt \in 0..(MaxTables + 1) :
         /\ failedAt <= m + 1
         /\ \A t \in StreamsSetUp(m, failedAt) :
               catalog[ShadowName(t)] = "none" /\ pollers[t] = Poller(FALSE, FALSE)
         /\ shadowTables' = shadowTables \cup ShadowMapped(m, failedAt)
         /\ replicationStreams' =
              [t \in DOMAIN replicationStreams \cup StreamsSetUp(m, failedAt) |->
                  IF t \in StreamsSetUp(m, failedAt) THEN TRUE ELSE replicationStreams[t]]
         /\ catalog' = [n \in Names |->
                          IF n.kind = "shadow" /\ n.table \in StreamsSetUp(m, failedAt)
                          THEN "copy" ELSE catalog[n]]
         /\ pollers' = [t \in 1..MaxTables |->
                          IF t \in StreamsSetUp(m, failedAt) THEN Poller(TRUE, TRUE)
                                                             ELSE pollers[t]]
    /\ UNCHANGED txn
    /\ did' = NothingDone
    /\ UNCHANGED <<cutoverCall, outcome, maintenance, issued, clock>>
    /\ UNCHANGED <<jobVars, copyVars, dataVars>>

\* The interval timer of table t's stream fires: an inactive stream clears
\* its timer; an active one awaits getChangesSince.
PollTick(t) ==
    /\ pollers[t].timer
    /\ IF pollers[t].isActive
       THEN /\ pollers[t].querying + pollers[t].inserting < MaxTicksInFlight
            /\ pollers' = [pollers EXCEPT ![t].querying = @ + 1]
       ELSE pollers' = [pollers EXCEPT ![t].timer = FALSE]
    /\ did' = NothingDone
    /\ UNCHANGED <<cutoverCall, outcome, catalog, txn, maintenance, issued, clock>>
    /\ UNCHANGED <<jobVars, shadowTables, replicationStreams, copyVars, dataVars>>

\* getChangesSince of a tick returns: with changes, insertData is awaited;
\* with none, or when it throws (replicationError is emitted), the tick ends.
PollQuery(t) ==
    /\ pollers[t].querying > 0
    /\ \E changes \in BOOLEAN :
         pollers' = [pollers EXCEPT ![t].querying = @ - 1,
                                    ![t].inserting = IF changes THEN @ + 1 ELSE @]
    /\ did' = NothingDone
    /\ UNCHANGED <<cutoverCall, outcome, catalog, txn, maintenance, issued, clock>>
    /\ UNCHANGED <<jobVars, shadowTables, replicationStreams, copyVars, dataVars>>

\* insertData of a tick ends: the changes are in the shadow table, or the
\* insert threw (replicationError is emitted).
PollInsert(t) ==
    /\ pollers[t].inserting > 0
    /\ pollers' = [pollers EXCEPT ![t].inserting = @ - 1]
    /\ \/ /\ txn.state # "aborted"
          /\ View[ShadowName(t)] # "none"
          /\ did' = [kind |-> "pollInsert", table |-> t]
       \/ did' = NothingDone
    /\ UNCHANGED <<cutoverCall, outcome, catalog, txn, maintenance, issued, clock>>
    /\ UNCHANGED <<jobVars, shadowTables, replicationStreams, copyVars, dataVars>>

\* A slip: cleanup stops the streams and forgets them, and keeps the shadow
\* mappings.
CleanupKeepsShadowTables ==
    /\ pollers' = Stopped(DOMAIN replicationStreams)
    /\ replicationStreams' = <<>>
    /\ did' = [kind |-> "cleanup", table |-> 0]
    /\ UNCHANGED <<shadowTables, cutoverCall, outcome, catalog, txn, maintenance, issued, clock>>
    /\ UNCHANGED <<jobVars, copyVars, dataVars>>

\* ZeroDowntimeManager.cleanup: it awaits nothing and can be called at any
\* time, also with nothing set up.
Cleanup ==
    /\ pollers' = Stopped(DOMAIN replicationStreams)
    /\ shadowTables' = {}
    /\ replicationStreams' = <<>>
    /\ did' = [kind |-> "cleanup", table |-> 0]
    /\ UNCHANGED <<cutoverCall, outcome, catalog, txn, maintenance, issued, clock>>
    /\ UNCHANGED <<jobVars, copyVars, dataVars>>

\* ------------------------------------------------------------- full copy of one table
\* A text, character by character.
Repeat(c, n) == [i \in 1..n |-> c]

ValidUuid ==
    Repeat("a", 8) \o <<"-">> \o Repeat("0", 4) \o <<"-", "4">> \o Repeat("f", 3)
        \o <<"-", "B">> \o Repeat("7", 3) \o <<"-">> \o Repeat("c", 12)

\* The same text with version digit 6, which the pattern does not admit.
BadVersionUuid == [ValidUuid EXCEPT ![15] = "6"]

Null == <<"null">>

\* The values a row of the source holds in the table's second column.
Values == {ValidUuid, BadVersionUuid, Null}

HexDigits ==
    {"0", "1", "2", "3", "4", "5", "6", "7", "8", "9",
     "a", "b", "c", "d", "e", "f", "A", "B", "C", "D", "E", "F"}

\* /^[0-9a-f]{8}-[0-9a-f]{4}-[1-5][0-9a-f]{3}-[89ab][0-9a-f]{3}-[0-9a-f]{12}$/i
UuidRegexTest(strValue) ==
    /\ Len(strValue) = 36
    /\ \A i \in 1..36 :
         IF i \in {9, 14, 19, 24} THEN strValue[i] = "-"
         ELSE IF i = 15 THEN strValue[i] \in {"1", "2", "3", "4", "5"}
         ELSE IF i = 20 THEN strValue[i] \in {"8", "9", "a", "b", "A", "B"}
         ELSE strValue[i] \in HexDigits

\* transformValue, for the column types of the table copied here.
TransformValue(value, targetType) ==
    IF targetType = "uuid" THEN (IF UuidRegexTest(value) THEN value ELSE Null)
    ELSE value

\* transformData: every row is mapped to a row; a null value is left alone.
TransformRow(row, columnType) ==
    [id |-> row.id,
     value |-> IF row.value # Null THEN TransformValue(row.value, columnType) ELSE row.value]

TransformData(data, columnType) ==
    [i \in 1..Len(data) |-> TransformRow(data[i], columnType)]

\* A slip: a page is one row short of the limit.
SelectPageOneShort(rows, limit, offset) ==
    IF offset >= Len(rows) \/ limit <= 1 THEN <<>>
    ELSE SubSeq(rows, offset + 1,
                IF offset + limit - 1 <= Len(rows) THEN offset + limit - 1 ELSE Len(rows))

\* selectData(table, limit, offset) on a source that is not written to:
\* `LIMIT limit OFFSET offset` over the rows in a fixed order.
SelectPage(rows, limit, offset) ==
    IF offset >= Len(rows) THEN <<>>
    ELSE SubSeq(rows, offset + 1, IF offset + limit <= Len(rows) THEN offset + limit ELSE Len(rows))

\* `private batchSize = 1000`
DefaultBatchSize == 1000

\* The upper limit of setBatchSize.
MaxBatchSize == 10000

\* setBatchSize(size), called between copies:
\* `this.batchSize = Math.max(1, Math.min(size, 10000))`
SetBatchSize(size) ==
    /\ copyCall.pc = "idle"
    /\ batchSize' = (LET capped == IF size < MaxBatchSize THEN size ELSE MaxBatchSize
                     IN IF capped > 1 THEN capped ELSE 1)
    /\ UNCHANGED <<tableDef, sourceRows, targetRows, fetches, copyCall>>
    /\ UNCHANGED <<engineVars, managerVars, dataVars>>

NoCopy == [pc |-> "idle", offset |-> 0, hasMoreData |-> FALSE, totalMigrated |-> 0, data |-> <<>>]

\* migrateTableData is called and awaits its first selectData.
MigrateTableData ==
    /\ copyCall.pc = "idle"
    /\ copyCall' = [NoCopy EXCEPT !.pc = "selectData", !.hasMoreData = TRUE]
    /\ UNCHANGED <<batchSize, tableDef, sourceRows, targetRows, fetches>>
    /\ UNCHANGED <<engineVars, managerVars, dataVars>>

\* selectData returns a page: an empty page ends the loop, another one is
\* transformed and insertData is awaited; or selectData throws.
SelectData ==
    /\ copyCall.pc = "selectData"
    /\ \/ LET data == SelectPage(sourceRows, batchSize, copyCall.offset) IN
          /\ fetches' = Append(fetches, [limit |-> batchSize, offset |-> copyCall.offset,
                                         rows |-> Len(data)])
          /\ copyCall' = IF Len(data) = 0
                         THEN [copyCall EXCEPT !.pc = "returned", !.hasMoreData = FALSE]
                         ELSE [copyCall EXCEPT !.pc = "insertData", !.data = data]
       \/ /\ copyCall' = [copyCall EXCEPT !.pc = "raised"]
          /\ UNCHANGED fetches
    /\ UNCHANGED <<batchSize, tableDef, sourceRows, targetRows>>
    /\ UNCHANGED <<engineVars, managerVars, dataVars>>

\* insertData returns: the transformed page is in the target, the offset
\* moves on by batchSize, and a short page ends the loop; or insertData throws
\* after it has inserted some of the rows (it inserts them one by one).
InsertData ==
    /\ copyCall.pc = "insertData"
    /\ LET transformedData == TransformData(copyCall.data, tableDef.columnType) IN
       \/ /\ targetRows' = targetRows \o transformedData
          /\ copyCall' = [copyCall EXCEPT
                 !.totalMigrated = @ + Len(copyCall.data),
                 !.offset = @ + batchSize,
                 !.data = <<>>,
                 !.hasMoreData = ~(Len(copyCall.data) < batchSize),
                 !.pc = IF Len(copyCall.data) < batchSize THEN "returned" ELSE "selectData"]
       \/ \E inserted \in 0..(Len(transformedData) - 1) :
            /\ targetRows' = targetRows \o SubSeq(transformedData, 1, inserted)
            /\ copyCall' = [copyCall EXCEPT !.pc = "raised"]
    /\ UNCHANGED <<batchSize, tableDef, sourceRows, fetches>>
    /\ UNCHANGED <<engineVars, managerVars, dataVars>>

\* ------------------------------------------------------------- schema diff
\* A ColumnDefinition.
Column(name, type, nullable, defaultValue) ==
    [name |-> name, type |-> type, nullable |-> nullable, defaultValue |-> defaultValue]

ColumnNames(columns) == {columns[i].name : i \in 1..Len(columns)}

\* `new Map(columns.map(col => [col.name, col])).get(name)`: the last column
\* of that name.
ColumnOf(columns, name) ==
    columns[CHOOSE i \in 1..Len(columns) :
               /\ columns[i].name = name
               /\ \A k \in (i + 1)..Len(columns) : columns[k].name # name]

\* A slip: only the types are compared.
ColumnsDifferByType(current, target) == current.type # target.type

ColumnsDiffer(current, target) ==
    \/ current.type # target.type
    \/ current.nullable # target.nullable
    \/ current.defaultValue # target.defaultValue

\* calculateTableChanges, on column lists that name no column twice (the
\* maps are then iterated in the order of the lists).
CalculateTableChanges(current, target) ==
    LET Added(col) == col.name \notin ColumnNames(current)
        Modified(col) == /\ col.name \in ColumnNames(current)
                         /\ ColumnsDiffer(ColumnOf(current, col.name), col)
        Dropped(col) == col.name \notin ColumnNames(target)
    IN [addColumns |-> SelectSeq(target, Added),
        modifyColumns |-> SelectSeq(target, Modified),
        dropColumns |-> SelectSeq(current, Dropped)]

NoChanges == [addColumns |-> <<>>, modifyColumns |-> <<>>, dropColumns |-> <<>>]

\* No evolveExistingTable call: the columns of the table on the target and
\* the TableDefinition to reach.  found tells whether migrateSchema has the
\* table's name among the existing tables, indexes is the number of
\* targetSchema.indexes; issued are the statements sent for the table so
\* far, indexLog what became of each createIndex.
NoEvolution(current, target) ==
    [pc |-> "idle", table |-> current, target |-> target,
     currentSchema |-> <<>>, changes |-> NoChanges,
     found |-> TRUE, indexes |-> 0, issued |-> <<>>, indexLog |-> <<>>]

\* A slip: the drops are applied before the modifications.
AfterPlanDropsFirst(changes, done) ==
    IF done < 1 /\ Len(changes.addColumns) > 0 THEN "addColumns"
    ELSE IF done \in {0, 1} /\ Len(changes.dropColumns) > 0 THEN "dropColumns"
    ELSE IF done # 2 /\ Len(changes.modifyColumns) > 0 THEN "modifyColumns"
    ELSE "returned"

\* The step of evolveExistingTable that follows the plan: the first
\* non-empty list is applied next.
AfterPlan(changes, done) ==
    IF done < 1 /\ Len(changes.addColumns) > 0 THEN "addColumns"
    ELSE IF done < 2 /\ Len(changes.modifyColumns) > 0 THEN "modifyColumns"
    ELSE IF done < 3 /\ Len(changes.dropColumns) > 0 THEN "dropColumns"
    ELSE "returned"

\* evolveExistingTable: getTableSchema returns the table's columns and the
\* changes are calculated.
EvolveExistingTable ==
    /\ evolution.pc = "idle"
    /\ evolution.found
    /\ LET changes == CalculateTableChanges(evolution.table, evolution.target) IN
       evolution' = [evolution EXCEPT !.currentSchema = evolution.table,
                                      !.changes = changes,
                                      !.pc = AfterPlan(changes, 0)]
    /\ OnlyEvolution

\* `ALTER TABLE ... ALTER COLUMN ... TYPE`, then SET NOT NULL for a column
\* that is not nullable and SET DEFAULT for one that has a default.
ModifiedColumn(old, column) ==
    Column(old.name, column.type,
           IF column.nullable THEN old.nullable ELSE FALSE,
           IF column.defaultValue # "undefined" THEN column.defaultValue ELSE old.defaultValue)

\* The table after the statements of the first n columns of a list went through.
WithAdded(table, columns, n) == table \o SubSeq(columns, 1, n)

WithModified(table, columns, n) ==
    [i \in 1..Len(table) |->
        IF table[i].name \in ColumnNames(SubSeq(columns, 1, n))
        THEN ModifiedColumn(table[i], ColumnOf(columns, table[i].name))
        ELSE table[i]]

WithDropped(table, columns, n) ==
    LET Kept(col) == col.name \notin ColumnNames(SubSeq(columns, 1, n))
    IN SelectSeq(table, Kept)

\* The statements of the first n columns of a list, in the order issued.
Statements(op, columns, n) == [i \in 1..n |-> [op |-> op, name |-> columns[i].name]]

\* addColumns, modifyColumns or dropColumns ends: every statement went
\* through, or the statement of some column threw after those before it.
ApplyChanges(pc, done, columns, With(_, _, _)) ==
    /\ evolution.pc = pc
    /\ \/ evolution' = [evolution EXCEPT
              !.table = With(@, columns, Len(columns)),
              !.issued = @ \o Statements(pc, columns, Len(columns)),
              !.pc = AfterPlan(evolution.changes, done)]
       \/ \E n \in 0..(Len(columns) - 1) :
            evolution' = [evolution EXCEPT !.table = With(@, columns, n),
                                           !.issued = @ \o Statements(pc, columns, n + 1),
                                           !.pc = "raised"]
    /\ OnlyEvolution

AddColumns == ApplyChanges("addColumns", 1, evolution.changes.addColumns, WithAdded)

ModifyColumns == ApplyChanges("modifyColumns", 2, evolution.changes.modifyColumns, WithModified)

DropColumns == ApplyChanges("dropColumns", 3, evolution.changes.dropColumns, WithDropped)

\* migrateSchema on a table whose name is not among the existing tables:
\* createTable is awaited with the whole definition, and returns or throws.
CreateTable(throws) ==
    /\ evolution.pc = "idle"
    /\ ~evolution.found
    /\ evolution' = [evolution EXCEPT
                        !.issued = Append(@, [op |-> "createTable", name |-> "*"]),
                        !.table = IF throws THEN @ ELSE evolution.target,
                        !.pc = IF throws THEN "raised" ELSE "created"]
    /\ OnlyEvolution

\* The table loop of migrateSchema is over and the index loop is not.
AtIndexes ==
    /\ evolution.pc \in {"returned", "created"}
    /\ Len(evolution.indexLog) < evolution.indexes

\* A slip: the failure of createIndex is not caught.
CreateOrUpdateIndexRaising(throws) ==
    /\ AtIndexes
    /\ evolution' = [evolution EXCEPT
                        !.indexLog = Append(@, IF throws THEN "failed" ELSE "created"),
                        !.pc = IF throws THEN "raised" ELSE @]
    /\ OnlyEvolution

\* createOrUpdateIndex on the next index: createIndex returns, or throws and
\* the failure is caught with a warning.
CreateOrUpdateIndex(throws) ==
    /\ AtIndexes
    /\ evolution' = [evolution EXCEPT
                        !.indexLog = Append(@, IF throws THEN "failed" ELSE "created")]
    /\ OnlyEvolution

\* migrateSchema returns after the last index.
MigrateSchemaReturn ==
    /\ evolution.pc \in {"returned", "created"}
    /\ Len(evolution.indexLog) = evolution.indexes
    /\ evolution' = [evolution EXCEPT !.pc = "migrated"]
    /\ OnlyEvolution

\* ------------------------------------------------------------- validateDataIntegrity
\* A slip: only a source that holds more rows is a mismatch.
CountsDifferSourceLarger(sourceCount, targetCount) == sourceCount > targetCount

\* `sourceCount !== targetCount`
CountsDiffer(sourceCount, targetCount) == sourceCount # targetCount

\* No validateDataIntegrity call; counts[t] holds the rows of table t of the
\* schema on the source and on the target.
NoIntegrity(counts) ==
    [pc |-> "idle", counts |-> counts, checked |-> 0, mismatches |-> <<>>,
     isValid |-> FALSE]

ValidateDataIntegrity ==
    /\ integrity.pc = "idle"
    /\ integrity' = IF Len(integrity.counts) = 0
                    THEN [integrity EXCEPT !.pc = "returned", !.isValid = TRUE]
                    ELSE [integrity EXCEPT !.pc = "getCount"]
    /\ OnlyIntegrity

\* One pass of the loop: both counts of the next table are read and compared,
\* or a getCount throws; after the last table the result is returned.
IntegrityTable ==
    /\ integrity.pc = "getCount"
    /\ LET table == integrity.checked + 1
           sourceCount == integrity.counts[table][1]
           targetCount == integrity.counts[table][2]
           mismatches ==
              IF CountsDiffer(sourceCount, targetCount)
              THEN Append(integrity.mismatches,
                          [table |-> table, sourceCount |-> sourceCount,
                           targetCount |-> targetCount])
              ELSE integrity.mismatches
       IN \/ integrity' = [integrity EXCEPT
                 !.checked = table,
                 !.mismatches = mismatches,
                 !.isValid = (table = Len(integrity.counts) /\ Len(mismatches) = 0),
                 !.pc = IF table = Len(integrity.counts) THEN "returned" ELSE "getCount"]
          \/ integrity' = [integrity EXCEPT !.pc = "raised"]
    /\ OnlyIntegrity

\* ------------------------------------------------------------- incremental copy of one table
\* `new Date(0)`
Epoch == 0

Max(a, b) == IF a >= b THEN a ELSE b

\* getWatermark on a target whose query returns: the later of MAX(updated_at)
\* and MAX(created_at), or the epoch for an empty table.
Watermark(rows) ==
    IF Len(rows) = 0 THEN Epoch
    ELSE LET Latest(stamps) == CHOOSE m \in stamps : \A x \in stamps : x <= m
         IN Max(Latest({rows[i].updated_at : i \in 1..Len(rows)}),
                Latest({rows[i].created_at : i \in 1..Len(rows)}))

\* `ORDER BY updated_at, created_at` over rows given by their positions (rows
\* of equal stamps in the order of the table).
RECURSIVE OrderByStamps(_, _)
OrderByStamps(rows, positions) ==
    IF positions = {} THEN <<>>
    ELSE LET Before(i, k) ==
                 \/ rows[i].updated_at < rows[k].updated_at
                 \/ /\ rows[i].updated_at = rows[k].updated_at
                    /\ \/ rows[i].created_at < rows[k].created_at
                       \/ rows[i].created_at = rows[k].created_at /\ i <= k
             first == CHOOSE i \in positions : \A k \in positions : Before(i, k)
         IN <<rows[first]>> \o OrderByStamps(rows, positions \ {first})

FirstRows(rows, limit) == SubSeq(rows, 1, IF limit <= Len(rows) THEN limit ELSE Len(rows))

\* `WHERE updated_at > ? OR created_at > ? ORDER BY updated_at, created_at
\* LIMIT ${this.batchSize}`
DataSinceWatermark(rows, watermark, limit) ==
    FirstRows(OrderByStamps(rows, {i \in 1..Len(rows) :
                                     rows[i].updated_at > watermark
                                        \/ rows[i].created_at > watermark}),
              limit)

\* No incremental copy is running; source and target are the rows of the
\* table on either side, runs the copies made so far.
NoIncremental(source, target) ==
    [pc |-> "idle", source |-> source, target |-> target, watermark |-> Epoch,
     newData |-> <<>>, threw |-> FALSE, runs |-> <<>>]

\* The copy ends: what it found as watermark, how many rows it transferred.
EndRun(inc, transferred, ended) ==
    [inc EXCEPT !.pc = "idle",
                !.newData = <<>>,
                !.runs = Append(@, [watermark |-> inc.watermark, transferred |-> transferred,
                                    threw |-> inc.threw, ended |-> ended])]

\* The rows are known: an empty list ends the copy, another one is
\* transformed and insertData is awaited.
WithNewData(inc, newData) ==
    IF Len(newData) = 0 THEN EndRun(inc, 0, "returned")
    ELSE [inc EXCEPT !.pc = "insertData", !.newData = newData]

\* migrateTableDataIncremental is called and awaits the query of getWatermark.
MigrateTableDataIncremental ==
    /\ incremental.pc = "idle"
    /\ Len(incremental.runs) < MaxRuns
    /\ incremental' = [incremental EXCEPT !.pc = "getWatermark", !.threw = FALSE]
    /\ OnlyIncremental

\* getWatermark: its query returns, or throws and the epoch is returned.
GetWatermark ==
    /\ incremental.pc = "getWatermark"
    /\ \/ incremental' = [incremental EXCEPT !.pc = "getDataSinceWatermark",
                                             !.watermark = Watermark(incremental.target)]
       \/ incremental' = [incremental EXCEPT !.pc = "getDataSinceWatermark",
                                             !.watermark = Epoch, !.threw = TRUE]
    /\ OnlyIncremental

\* getDataSinceWatermark: its query returns, or throws (as a query with `?`
\* placeholders does on PostgreSQL) and the fallback query is awaited.
GetDataSinceWatermark ==
    /\ incremental.pc = "getDataSinceWatermark"
    /\ \/ incremental' = WithNewData(incremental,
              DataSinceWatermark(incremental.source, incremental.watermark, batchSize))
       \/ incremental' = [incremental EXCEPT !.pc = "fallback", !.threw = TRUE]
    /\ OnlyIncremental

\* `SELECT * FROM ${tableName} LIMIT ${this.batchSize}` returns, or throws and
\* the empty list is returned.
FallbackQuery ==
    /\ incremental.pc = "fallback"
    /\ \/ incremental' = WithNewData(incremental, FirstRows(incremental.source, batchSize))
       \/ incremental' = WithNewData(incremental, <<>>)
    /\ OnlyIncremental

\* insertData returns, or throws after it has inserted some of the rows.  The
\* table's columns include the stamps, with timestamp type: transformData
\* leaves the rows as they are.
IncrementalInsert ==
    /\ incremental.pc = "insertData"
    /\ LET newData == incremental.newData IN
       \/ incremental' = EndRun([incremental EXCEPT !.target = @ \o newData],
                                Len(newData), "returned")
       \/ \E inserted \in 0..(Len(newData) - 1) :
            incremental' = EndRun([incremental EXCEPT !.target = @ \o SubSeq(newData, 1, inserted),
                                                      !.threw = TRUE],
                                  inserted, "raised")
    /\ OnlyIncremental

\* ------------------------------------------------------------- one table through a zero-downtime run
\* getChangesSince on a source whose query returns:
\* `WHERE updated_at > $1 OR created_at > $1 ORDER BY updated_at, created_at`
ChangesSince(rows, since) ==
    OrderByStamps(rows, {i \in 1..Len(rows) :
                           rows[i].updated_at > since \/ rows[i].created_at > since})

\* `SELECT * FROM ${tableName} LIMIT 1000`
FallbackLimit == 1000

\* insertData on a SQL target: the rows are inserted one by one, and a table
\* with a primary key refuses a row whose id it holds already.
RECURSIVE InsertRows(_, _, _)
InsertRows(table, rows, primaryKey) ==
    IF rows = <<>> THEN [rows |-> table, threw |-> FALSE]
    ELSE IF primaryKey /\ \E i \in 1..Len(table) : table[i].id = Head(rows).id
         THEN [rows |-> table, threw |-> TRUE]
         ELSE InsertRows(Append(table, Head(rows)), Tail(rows), primaryKey)

\* A zero-downtime job of one table that has not been started: the rows of
\* the table on the source, no row on the target, no shadow table, no stream.
\* queries holds the getChangesSince queries awaited on the source's
\* connection and inserts the insertData calls awaited on the target's, each
\* in the order issued (a connection answers in that order).  setupTime is
\* the instant the stream was made at, and ticked tells of every tick that
\* is over: whether its filtered query threw, whether it emitted
\* replicationError, whether it inserted a row and whether it set
\* lastSyncTime.
NoReplica(source, primaryKey, now) ==
    [pc |-> "idle", status |-> "pending",
     source |-> source, target |-> <<>>, shadow |-> <<>>, primaryKey |-> primaryKey,
     stream |-> [isActive |-> FALSE, lastSyncTime |-> Epoch], setupTime |-> Epoch,
     queries |-> <<>>, inserts |-> <<>>, ticks |-> 0, now |-> now, writes |-> 0,
     threw |-> FALSE, ticked |-> <<>>]

\* A tick is over.
Ticked(r, fellBack, reported, inserted, advanced) ==
    [r EXCEPT !.ticked = Append(@, [fellBack |-> fellBack, emitted |-> reported,
                                    inserted |-> inserted, advanced |-> advanced])]

\* An adapter call of the run or of the stream threw.
Threw(r) == [r EXCEPT !.threw = TRUE]

\* The job's call has ended: the catch block of startMigration, or the tail
\* of executeMigration.
RunFailed(r) == [r EXCEPT !.pc = "ended", !.status = "failed"]

\* startMigration on the pending job: both adapters are resolved and
\* setupShadowWrites is awaited.
RunStart ==
    /\ replica.pc = "idle"
    /\ replica.status = "pending"
    /\ replica' = [replica EXCEPT !.pc = "setupShadowWrites", !.status = "running"]
    /\ OnlyReplica

\* setupShadowWrites returns: the shadow table is created, empty, and
\* setupReplication has made the stream (`lastSyncTime: new Date()`) and
\* started its timer.
RunSetupShadowWrites(throws) ==
    /\ replica.pc = "setupShadowWrites"
    /\ replica' = IF throws THEN RunFailed(Threw(replica))
                  ELSE [replica EXCEPT
                           !.stream = [isActive |-> TRUE, lastSyncTime |-> replica.now],
                           !.setupTime = replica.now,
                           !.pc = "migrateSchema"]
    /\ OnlyReplica

RunMigrateSchema(throws) ==
    /\ replica.pc = "migrateSchema"
    /\ replica' = IF throws THEN RunFailed(Threw(replica))
                  ELSE [replica EXCEPT !.pc = "migrateDataIncremental"]
    /\ OnlyReplica

\* migrateDataIncremental returns: the rows newer than the target table's
\* watermark, up to batchSize of them, are in the target table
\* (`insertData(table.name, ...)`), and cutover starts with validateShadowData.
RunMigrateDataIncremental(throws) ==
    /\ replica.pc = "migrateDataIncremental"
    /\ LET newData == DataSinceWatermark(replica.source, Watermark(replica.target), batchSize)
           inserted == InsertRows(replica.target, newData, replica.primaryKey)
       IN replica' = IF throws \/ inserted.threw
                     THEN RunFailed(Threw([replica EXCEPT !.target = inserted.rows]))
                     ELSE [replica EXCEPT !.target = inserted.rows,
                                          !.pc = "validateShadowData"]
    /\ OnlyReplica

\* validateShadowData: getCount of the source table and of the shadow table
\* are compared; on equal counts finalSync sets the stream inactive and
\* awaits getChangesSince; on different counts, or when a getCount throws,
\* rollbackCutover runs and the job fails.
RunValidateShadowData(throws) ==
    /\ replica.pc = "validateShadowData"
    /\ replica' = IF throws THEN RunFailed(Threw(replica))
                  ELSE IF Len(replica.source) # Len(replica.shadow) THEN RunFailed(replica)
                  ELSE [replica EXCEPT
                           !.stream.isActive = FALSE,
                           !.queries = Append(@, [by |-> "finalSync", fallback |-> FALSE,
                                                  since |-> replica.stream.lastSyncTime]),
                           !.pc = "finalSync"]
    /\ OnlyReplica

\* The interval timer fires on the active stream: the tick awaits
\* getChangesSince(..., stream.lastSyncTime).
StreamTick ==
    /\ replica.stream.isActive
    /\ replica.ticks < MaxTicks
    /\ replica' = [replica EXCEPT
                      !.ticks = @ + 1,
                      !.queries = Append(@, [by |-> "tick", fallback |-> FALSE,
                                             since |-> replica.stream.lastSyncTime])]
    /\ OnlyReplica

\* The query at the head of the source's connection ends.  getChangesSince:
\* the query returns its rows; or it throws and the fallback query is issued;
\* or the fallback query throws.  With rows, insertData is issued; a tick
\* without rows, or whose fallback threw (replicationError), is over;
\* finalSync without rows goes on to renameTables, and with a fallback that
\* threw it fails the cutover.
StreamQuery(throws) ==
    /\ Len(replica.queries) > 0
    /\ LET query == Head(replica.queries)
           rest == Tail(replica.queries)
           failed == Threw(replica)
           changes == IF query.fallback THEN FirstRows(replica.source, FallbackLimit)
                      ELSE ChangesSince(replica.source, query.since)
       IN replica' =
            IF throws
            THEN (IF ~query.fallback
                  THEN [failed EXCEPT !.queries = Append(rest, [query EXCEPT !.fallback = TRUE])]
                  ELSE IF query.by = "tick"
                  THEN Ticked([failed EXCEPT !.queries = rest], TRUE, TRUE, FALSE, FALSE)
                  ELSE RunFailed([failed EXCEPT !.queries = rest]))
            ELSE IF Len(changes) > 0
                 THEN [replica EXCEPT !.queries = rest,
                                      !.inserts = Append(@, [by |-> query.by,
                                                             fallback |-> query.fallback,
                                                             changes |-> changes])]
                 ELSE IF query.by = "tick"
                 THEN Ticked([replica EXCEPT !.queries = rest],
                             query.fallback, FALSE, FALSE, FALSE)
                 ELSE [replica EXCEPT !.queries = rest, !.pc = "renameTables"]
    /\ OnlyReplica

\* The insertData at the head of the target's connection ends: the rows are
\* in the shadow table, or it threw at some row.  A tick then sets
\* `stream.lastSyncTime = new Date()`, or emits replicationError; finalSync
\* goes on to renameTables, or fails the cutover.
StreamInsert(throws) ==
    /\ Len(replica.inserts) > 0
    /\ LET insert == Head(replica.inserts)
           rest == Tail(replica.inserts)
           inserted == IF throws THEN [rows |-> replica.shadow, threw |-> TRUE]
                       ELSE InsertRows(replica.shadow, insert.changes, replica.primaryKey)
           after == [replica EXCEPT !.inserts = rest, !.shadow = inserted.rows]
       IN replica' =
            IF insert.by = "tick"
            THEN (IF inserted.threw
                  THEN Ticked(Threw(after), insert.fallback, TRUE,
                              Len(inserted.rows) > Len(replica.shadow), FALSE)
                  ELSE Ticked([after EXCEPT !.stream.lastSyncTime = replica.now],
                              insert.fallback, FALSE, TRUE, TRUE))
            ELSE IF inserted.threw THEN RunFailed(Threw(after))
            ELSE [after EXCEPT !.pc = "renameTables"]
    /\ OnlyReplica

\* renameTables returns: the shadow table has taken the live name; then
\* validateMigration is awaited.
RunRenameTables(throws) ==
    /\ replica.pc = "renameTables"
    /\ replica' = IF throws THEN RunFailed(Threw(replica))
                  ELSE [replica EXCEPT !.target = replica.shadow, !.shadow = <<>>,
                                       !.pc = "validateMigration"]
    /\ OnlyReplica

\* validateMigration compares getCount of the table on both sides; on equal
\* counts the job is completed.
RunValidateMigration(throws) ==
    /\ replica.pc = "validateMigration"
    /\ replica' = IF throws THEN RunFailed(Threw(replica))
                  ELSE IF ~CountsMatch(Len(replica.source), Len(replica.target))
                  THEN RunFailed(replica)
                  ELSE [replica EXCEPT !.pc = "ended", !.status = "completed"]
    /\ OnlyReplica

\* The application writes a row to the source table, at a new instant.  What
\* the trigger of setupTriggers does with the write on a PostgreSQL source
\* is left out: the row reaches the shadow table through the stream only.
SourceWrite ==
    /\ replica.writes < MaxWrites
    /\ replica' = [replica EXCEPT
                      !.now = @ + 1,
                      !.writes = @ + 1,
                      !.source = Append(@, [id |-> Len(replica.source) + 1,
                                            updated_at |-> replica.now + 1,
                                            created_at |-> replica.now + 1])]
    /\ OnlyReplica

\* ------------------------------------------------------------- one manager, two jobs
\* MigrationEngine makes one ZeroDowntimeManager in its constructor and every
\* zero-downtime job goes through it.  The jobs here are zero-downtime jobs
\* on distinct endpoint pairs; tables[j] are the tables that getFullSchema
\* finds on job j's source.
SharedJobs == 1..2

\* No job has been started: map is ZeroDowntimeManager.shadowTables as the
\* list of its keys in insertion order (the order `for ... of` visits them
\* in), mappedBy the jobs whose setupShadowWrites has set each key, and
\* touched what the last step did.
NoShared(tables) ==
    [tables |-> tables,
     map |-> <<>>,
     mappedBy |-> [t \in 1..MaxTables |-> {}],
     calls |-> [j \in SharedJobs |-> [pc |-> "idle", at |-> 0]],
     touched |-> [job |-> 0, op |-> "none", table |-> 0]]

\* `this.shadowTables.set(table.name, shadowTableName)`: a new key goes to
\* the end, a key already in the map keeps its place.
MapSet(map, t) == IF \E i \in 1..Len(map) : map[i] = t THEN map ELSE Append(map, t)

\* The table of job j's source that setupShadowWrites maps after table t.
NextOf(j, t) ==
    LET later == {u \in shared.tables[j] : u > t}
    IN IF later = {} THEN 0 ELSE CHOOSE u \in later : \A v \in later : u <= v

\* startMigration on job j reaches setupShadowWrites; getFullSchema returns.
SharedStart(j) ==
    /\ shared.calls[j].pc = "idle"
    /\ shared' = [shared EXCEPT
                     !.calls[j] = IF NextOf(j, 0) = 0 THEN [pc |-> "migrate", at |-> 0]
                                  ELSE [pc |-> "setupShadowWrites", at |-> NextOf(j, 0)],
                     !.touched = [job |-> j, op |-> "start", table |-> 0]]
    /\ OnlyShared

\* One pass of the loop of setupShadowWrites of job j: the table is put in
\* shadowTables, then createTable, setupTriggers and setupReplication return,
\* or one of them throws and the job fails.
SharedSetupShadowWrites(j, throws) ==
    /\ shared.calls[j].pc = "setupShadowWrites"
    /\ LET t == shared.calls[j].at IN
       shared' = [shared EXCEPT
                     !.map = MapSet(@, t),
                     !.mappedBy[t] = @ \cup {j},
                     !.calls[j] = IF throws THEN [pc |-> "ended", at |-> 0]
                                  ELSE IF NextOf(j, t) = 0 THEN [pc |-> "migrate", at |-> 0]
                                  ELSE [pc |-> "setupShadowWrites", at |-> NextOf(j, t)],
                     !.touched = [job |-> j, op |-> "setupShadowWrites", table |-> t]]
    /\ OnlyShared

\* migrateSchema and migrateDataIncremental of job j return, and cutover
\* starts: validateShadowData begins its loop over shadowTables.
SharedMigrate(j) ==
    /\ shared.calls[j].pc = "migrate"
    /\ shared' = [shared EXCEPT
                     !.calls[j] = [pc |-> "validateShadowData", at |-> 1],
                     !.touched = [job |-> j, op |-> "migrate", table |-> 0]]
    /\ OnlyShared

\* The loops of cutover, in order, and the one of rollbackCutover.
LoopAfter(pc) ==
    IF pc = "validateShadowData" THEN "finalSync"
    ELSE IF pc = "finalSync" THEN "renameTables"
    ELSE "ended"

\* One pass of a loop of job j's cutover over shadowTables: the entry at
\* the loop's place is visited with job j's adapters (its counts read, its
\* changes synced, its tables renamed), or the visit throws and
\* rollbackCutover starts its own loop; a loop past the last entry is over.
SharedVisit(j, throws) ==
    /\ shared.calls[j].pc \in {"validateShadowData", "finalSync", "renameTables", "rollbackCutover"}
    /\ LET call == shared.calls[j] IN
       shared' =
          IF call.at > Len(shared.map)
          THEN [shared EXCEPT
                   !.calls[j] = [pc |-> IF call.pc = "rollbackCutover" THEN "ended"
                                        ELSE LoopAfter(call.pc),
                                 at |-> 1],
                   !.touched = [job |-> j, op |-> "none", table |-> 0]]
          ELSE [shared EXCEPT
                   !.calls[j] = IF throws /\ call.pc # "rollbackCutover"
                                THEN [pc |-> "rollbackCutover", at |-> 1]
                                ELSE IF throws THEN [pc |-> "ended", at |-> 1]
                                ELSE [call EXCEPT !.at = @ + 1],
                   !.touched = [job |-> j, op |-> call.pc, table |-> shared.map[call.at]]]
    /\ OnlyShared

\* ------------------------------------------------------------- rollback of a job's tables
\* A table of the job's schema on the target: whether it exists there and
\* how many rows it holds.
TargetTable(exists, rows) == [exists |-> exists, rows |-> rows]

\* No rollback has been called; tables are the tables of job.schema as they
\* are on the target, existing what getExistingTables has returned.
NoUndo(tables) ==
    [pc |-> "idle", status |-> "pending", tables |-> tables, existing |-> {}, at |-> 0,
     deleteThrew |-> FALSE]

\* rollbackMigration: the job is running, both adapters are resolved and
\* rollbackSchema awaits getExistingTables.
UndoStart ==
    /\ undo.pc = "idle"
    /\ undo' = [undo EXCEPT !.pc = "getExistingTables", !.status = "running"]
    /\ OnlyUndo

\* getExistingTables: its query returns the names of the tables, or throws
\* (as every query does on the MongoDB adapter) and the empty list is
\* returned.
UndoGetExistingTables(throws) ==
    /\ undo.pc = "getExistingTables"
    /\ undo' = [undo EXCEPT
                   !.existing = IF throws THEN {}
                                ELSE {t \in 1..Len(undo.tables) : undo.tables[t].exists},
                   !.pc = "rollbackSchema",
                   !.at = 1]
    /\ OnlyUndo

\* One pass of the second loop of rollbackSchema: a table of the schema that
\* is among the existing ones is dropped and created again, empty; dropTable
\* or createTable may throw, and then rollbackMigration marks the job failed.
\* After the last table rollbackData starts.
UndoRecreate(throws) ==
    /\ undo.pc = "rollbackSchema"
    /\ LET t == undo.at IN
       undo' =
          IF t > Len(undo.tables) THEN [undo EXCEPT !.pc = "rollbackData", !.at = 1]
          ELSE IF t \notin undo.existing THEN [undo EXCEPT !.at = t + 1]
          ELSE IF throws = "dropTable" THEN [undo EXCEPT !.pc = "ended", !.status = "failed"]
          ELSE IF throws = "createTable"
               THEN [undo EXCEPT !.tables[t] = TargetTable(FALSE, 0),
                                 !.pc = "ended", !.status = "failed"]
          ELSE [undo EXCEPT !.tables[t] = TargetTable(TRUE, 0), !.at = t + 1]
    /\ OnlyUndo

\* One pass of the loop of rollbackData: clearTableData awaits
\* `DELETE FROM ${tableName}`, which empties the table, or throws (as it does
\* on a table that does not exist) and is caught with a warning.  After the
\* last table rollbackData returns and rollbackMigration marks the job
\* completed.
UndoClearTableData(throws) ==
    /\ undo.pc = "rollbackData"
    /\ LET t == undo.at IN
       undo' =
          IF t > Len(undo.tables) THEN [undo EXCEPT !.pc = "ended", !.status = "completed"]
          ELSE IF throws \/ ~undo.tables[t].exists
               THEN [undo EXCEPT !.at = t + 1, !.deleteThrew = TRUE]
               ELSE [undo EXCEPT !.tables[t].rows = 0, !.at = t + 1]
    /\ OnlyUndo

\* ------------------------------------------------------------- incremental copy of a schema
\* migrateDataIncremental has not been called; tables are the tables of the
\* schema, each with its rows on the source and on the target and with or
\* without a primary key; progress holds the values the callback was called
\* with, threw the queries that have thrown.
NoCopies(tables) ==
    [pc |-> "idle", tables |-> tables, at |-> 0, progress |-> <<>>, threw |-> {}]

\* migrateDataIncremental is called: the loop is at the first table.
MigrateDataIncremental ==
    /\ copies.pc = "idle"
    /\ copies' = [copies EXCEPT !.pc = "running", !.at = 1]
    /\ OnlyCopies

\* What getDataSinceWatermark returns: the rows of its query; if that throws,
\* the rows of the fallback query; if that throws too, no row.
FetchedSince(source, watermark, queryThrows, fallbackThrows) ==
    IF ~queryThrows THEN DataSinceWatermark(source, watermark, batchSize)
    ELSE IF ~fallbackThrows THEN FirstRows(source, batchSize)
    ELSE <<>>

\* One pass of the loop: migrateTableDataIncremental of the table.  The
\* watermark is read (the epoch if the query throws), the rows are fetched
\* and insertData puts them in the target table row by row; if it throws
\* (a table with a primary key refuses an id it holds), so does
\* migrateDataIncremental; if not, the callback is called.  After the last
\* table migrateDataIncremental returns.
CopyTableIncremental(watermarkThrows, queryThrows, fallbackThrows) ==
    /\ copies.pc = "running"
    /\ LET t == copies.at
           total == Len(copies.tables)
       IN copies' =
            IF t > total THEN [copies EXCEPT !.pc = "returned"]
            ELSE LET table == copies.tables[t]
                     watermark == IF watermarkThrows THEN Epoch ELSE Watermark(table.target)
                     newData == FetchedSince(table.source, watermark,
                                             queryThrows, fallbackThrows)
                     inserted == InsertRows(table.target, newData, table.primaryKey)
                     thrown == {kind \in {"getWatermark", "query", "fallback"} :
                                  \/ kind = "getWatermark" /\ watermarkThrows
                                  \/ kind = "query" /\ queryThrows
                                  \/ kind = "fallback" /\ queryThrows /\ fallbackThrows}
                 IN [copies EXCEPT
                        !.tables[t].target = inserted.rows,
                        !.threw = @ \cup thrown,
                        !.pc = IF inserted.threw THEN "raised" ELSE @,
                        !.at = IF inserted.threw THEN @ ELSE t + 1,
                        !.progress = IF inserted.threw THEN @
                                     ELSE Append(@, TableProgress(t, total))]
    /\ OnlyCopies

\* ------------------------------------------------------------- type compatibility
\* The logical types a column is given: the keys and members of the
\* compatibility map, a type the map does not know, and two spellings in
\* upper case.
LogicalTypes ==
    {"string", "text", "varchar", "char", "integer", "int", "bigint", "smallint", "tinyint",
     "decimal", "numeric", "float", "double", "boolean", "bool", "bit",
     "date", "datetime", "timestamp", "json", "jsonb", "uuid", "TEXT", "UUID"}

\* `type.toLowerCase()`
ToLowerCase(type) ==
    IF type = "TEXT" THEN "text" ELSE IF type = "UUID" THEN "uuid" ELSE type

CompatibilityKeys ==
    {"string", "text", "integer", "bigint", "decimal", "boolean", "date", "datetime", "json"}

\* compatibilityMap
CompatibilityMap(key) ==
    IF key = "string" THEN {"string", "text", "varchar", "char"}
    ELSE IF key = "text" THEN {"text", "string", "varchar", "char"}
    ELSE IF key = "integer" THEN {"integer", "int", "bigint", "smallint", "tinyint"}
    ELSE IF key = "bigint" THEN {"bigint", "integer", "int"}
    ELSE IF key = "decimal" THEN {"decimal", "numeric", "float", "double"}
    ELSE IF key = "boolean" THEN {"boolean", "bool", "bit"}
    ELSE IF key = "date" THEN {"date", "datetime", "timestamp"}
    ELSE IF key = "datetime" THEN {"datetime", "timestamp", "date"}
    ELSE {"json", "jsonb", "text"}

\* areTypesCompatible: `compatibilityMap[sourceType.toLowerCase()] ||
\* [sourceType]` includes the target type in lower case.
AreTypesCompatible(sourceType, targetType) ==
    LET sourceCompatible == IF ToLowerCase(sourceType) \in CompatibilityKeys
                            THEN CompatibilityMap(ToLowerCase(sourceType))
                            ELSE {sourceType}
    IN ToLowerCase(targetType) \in sourceCompatible

\* A column as checkTableCompatibility reads it.
TypedColumn(type, nullable) == [type |-> type, nullable |-> nullable]

\* checkTableCompatibility has not been called on the two tables, which have
\* one column, of the same name, each.
NoCompat(source, target) ==
    [pc |-> "idle", source |-> source, target |-> target, errors |-> 0, warnings |-> 0]

\* checkTableCompatibility on the two tables: a type error for the column if
\* its types are not compatible, a warning if it is nullable in the source
\* and not in the target.
CheckTableCompatibility ==
    /\ compat.pc = "idle"
    /\ compat' = [compat EXCEPT
                     !.pc = "checked",
                     !.errors = IF AreTypesCompatible(compat.source.type, compat.target.type)
                                THEN 0 ELSE 1,
                     !.warnings = IF compat.source.nullable /\ ~compat.target.nullable
                                  THEN 1 ELSE 0]
    /\ OnlyCompat

\* ------------------------------------------------------------- specification
\* A new MigrationEngine, with its new ZeroDowntimeManager.
EngineInit ==
    /\ jobs = <<>>
    /\ adapters = {}
    /\ calls = <<>>
    /\ nCalls = 0
    /\ result = NoResult
    /\ emitted = <<>>
    /\ shadowTables = {}
    /\ replicationStreams = <<>>

\* No cutover has been called; the target holds every table under its live
\* name (the tables that migrateSchema created), and no shadow table.
ManagerInit ==
    /\ cutoverCall = Idle
    /\ outcome = [call |-> 0, ended |-> "none", error |-> NoError]
    /\ catalog = [n \in Names |-> IF n.kind = "live" THEN "original" ELSE "none"]
    /\ txn = NoTxn
    /\ maintenance = FALSE
    /\ issued = {}
    /\ clock = 1
    /\ pollers = [t \in 1..MaxTables |-> Poller(FALSE, FALSE)]
    /\ did = NothingDone

\* A new DataMigrator (`private batchSize = 1000`) that has copied nothing,
\* and a table with columns id and value.
DataMigratorInit ==
    /\ batchSize = DefaultBatchSize
    /\ targetRows = <<>>
    /\ fetches = <<>>
    /\ copyCall = NoCopy

\* No schema change and no integrity check is under way.
DataInit ==
    /\ evolution = NoEvolution(<<>>, <<>>)
    /\ integrity = NoIntegrity(<<>>)
    /\ incremental = NoIncremental(<<>>, <<>>)
    /\ replica = NoReplica(<<>>, FALSE, 0)
    /\ shared = NoShared([j \in SharedJobs |-> {}])
    /\ undo = NoUndo(<<>>)
    /\ copies = NoCopies(<<>>)
    /\ compat = NoCompat(TypedColumn("string", TRUE), TypedColumn("string", TRUE))

Init ==
    /\ EngineInit
    /\ ManagerInit
    /\ DataMigratorInit
    /\ DataInit
    /\ tableDef = [columnType |-> "string"]
    /\ sourceRows = <<>>

Next ==
    \/ \E e \in EndpointPairs, nTables \in 0..MaxTables,
          downtime \in BOOLEAN, rollbackSupported \in BOOLEAN :
         CreateMigration(e[1], e[2], nTables, downtime, rollbackSupported)
    \/ \E j \in JobIds : StartMigration(j)
    \/ \E j \in JobIds : PauseMigration(j)
    \/ \E j \in JobIds : ResumeMigration(j)
    \/ \E j \in JobIds : RollbackMigration(j)
    \/ \E c \in CallIds : ConnectAdapter(c)
    \/ \E c \in CallIds : SetupShadowWrites(c)
    \/ \E c \in CallIds : MigrateSchema(c)
    \/ \E c \in CallIds : MigrateTable(c)
    \/ \E c \in CallIds : MigrateDataReturn(c)
    \/ \E c \in CallIds : Cutover(c)
    \/ \E c \in CallIds : ValidateTable(c)
    \/ \E c \in CallIds : Complete(c)
    \/ \E c \in CallIds : RollbackSchema(c)
    \/ \E c \in CallIds : RollbackData(c)

Spec == Init /\ [][Next]_vars

\* ZeroDowntimeManager alone: shadow setup, cutover with every await a step,
\* the polling loops and cleanup.
NextCutover ==
    \/ ManagerSetupShadowWrites
    \/ CutoverStart
    \/ ValidateShadowData
    \/ EnableMaintenanceMode
    \/ FinalSync
    \/ RenameBegin
    \/ RenameToBackup
    \/ RenameToLive
    \/ RenameCommit
    \/ RenameRollback
    \/ DisableMaintenanceMode
    \/ RollbackBegin
    \/ RollbackToShadow
    \/ RollbackToLive
    \/ RollbackCommit
    \/ RollbackDisable
    \/ RollbackRollback
    \/ \E t \in 1..MaxTables : PollTick(t)
    \/ \E t \in 1..MaxTables : PollQuery(t)
    \/ \E t \in 1..MaxTables : PollInsert(t)
    \/ Cleanup

SpecCutover == Init /\ [][NextCutover]_vars

\* The source tables of at most MaxRows rows with ids 1, 2, ... in paging order.
SourceTablesOfRows ==
    UNION {[1..n -> Values] : n \in 0..MaxRows}

\* DataMigrator's copy of one table, for every such source table, with a
\* uuid or a string column.
InitCopy ==
    /\ EngineInit
    /\ ManagerInit
    /\ DataMigratorInit
    /\ DataInit
    /\ tableDef \in [columnType : {"uuid", "string"}]
    /\ \E values \in SourceTablesOfRows :
         sourceRows = [i \in 1..Len(values) |-> [id |-> i, value |-> values[i]]]

NextCopy ==
    \/ \E size \in 0..MaxBatch : SetBatchSize(size)
    \/ MigrateTableData
    \/ SelectData
    \/ InsertData

SpecCopy == InitCopy /\ [][NextCopy]_vars

\* The column names of the tables, and the shapes a column takes: a
\* nullable text column without default, and one that differs from it in
\* type, in nullability or in default.
EvolveNames == <<"id", "email", "phone">>

ColumnShapes ==
    {[type |-> "text", nullable |-> TRUE, defaultValue |-> "undefined"],
     [type |-> "integer", nullable |-> TRUE, defaultValue |-> "undefined"],
     [type |-> "text", nullable |-> FALSE, defaultValue |-> "undefined"],
     [type |-> "text", nullable |-> TRUE, defaultValue |-> "0"]}

\* The tables over some of the names, each column in one of the shapes, in
\* the order of the names.
EvolveTables ==
    {[i \in 1..Len(EvolveNames) |->
         Column(EvolveNames[i], shape[i].type, shape[i].nullable, shape[i].defaultValue)]
     : shape \in [1..Len(EvolveNames) -> ColumnShapes]}

TablesOver(names) ==
    LET Named(col) == col.name \in names
    IN {SelectSeq(table, Named) : table \in EvolveTables}

\* SchemaEvolution's change of one table, for every pair of a table on the
\* target and a TableDefinition.
InitEvolve ==
    /\ EngineInit
    /\ ManagerInit
    /\ DataMigratorInit
    /\ tableDef = [columnType |-> "string"]
    /\ sourceRows = <<>>
    /\ integrity = NoIntegrity(<<>>)
    /\ incremental = NoIncremental(<<>>, <<>>)
    /\ replica = NoReplica(<<>>, FALSE, 0)
    /\ shared = NoShared([j \in SharedJobs |-> {}])
    /\ undo = NoUndo(<<>>)
    /\ copies = NoCopies(<<>>)
    /\ compat = NoCompat(TypedColumn("string", TRUE), TypedColumn("string", TRUE))
    /\ \E currentNames \in SUBSET {EvolveNames[i] : i \in 1..Len(EvolveNames)},
          targetNames \in SUBSET {EvolveNames[i] : i \in 1..Len(EvolveNames)} :
         \E current \in TablesOver(currentNames), target \in TablesOver(targetNames) :
            evolution = NoEvolution(current, target)

NextEvolve ==
    \/ EvolveExistingTable
    \/ AddColumns
    \/ ModifyColumns
    \/ DropColumns

SpecEvolve == InitEvolve /\ [][NextEvolve]_vars

\* validateDataIntegrity on schemas of up to MaxChecked tables, for every
\* pair of row counts per table.
InitIntegrity ==
    /\ EngineInit
    /\ ManagerInit
    /\ DataMigratorInit
    /\ tableDef = [columnType |-> "string"]
    /\ sourceRows = <<>>
    /\ evolution = NoEvolution(<<>>, <<>>)
    /\ incremental = NoIncremental(<<>>, <<>>)
    /\ replica = NoReplica(<<>>, FALSE, 0)
    /\ shared = NoShared([j \in SharedJobs |-> {}])
    /\ undo = NoUndo(<<>>)
    /\ copies = NoCopies(<<>>)
    /\ compat = NoCompat(TypedColumn("string", TRUE), TypedColumn("string", TRUE))
    /\ \E n \in 0..MaxChecked :
         \E counts \in [1..n -> Counts \X Counts] : integrity = NoIntegrity(counts)

NextIntegrity ==
    \/ ValidateDataIntegrity
    \/ IntegrityTable

SpecIntegrity == InitIntegrity /\ [][NextIntegrity]_vars

\* The stamps of a row: created at some instant and last updated then or later.
StampedRows ==
    {row \in [updated_at : 1..MaxStamp, created_at : 1..MaxStamp] :
        row.created_at <= row.updated_at}

\* The incremental copy of one table, run up to MaxRuns times, for every
\* batch size up to MaxBatch (as set by setBatchSize), every source table of
\* up to MaxNew rows and a target that is empty or holds the source's rows
\* of instant 1.
InitIncremental ==
    /\ EngineInit
    /\ ManagerInit
    /\ evolution = NoEvolution(<<>>, <<>>)
    /\ integrity = NoIntegrity(<<>>)
    /\ replica = NoReplica(<<>>, FALSE, 0)
    /\ shared = NoShared([j \in SharedJobs |-> {}])
    /\ undo = NoUndo(<<>>)
    /\ copies = NoCopies(<<>>)
    /\ compat = NoCompat(TypedColumn("string", TRUE), TypedColumn("string", TRUE))
    /\ tableDef = [columnType |-> "string"]
    /\ sourceRows = <<>>
    /\ targetRows = <<>>
    /\ fetches = <<>>
    /\ copyCall = NoCopy
    /\ batchSize \in 1..MaxBatch
    /\ \E n \in 0..MaxNew :
         \E stamps \in [1..n -> StampedRows], transferred \in BOOLEAN :
            LET source == [i \in 1..n |-> [id |-> i, updated_at |-> stamps[i].updated_at,
                                           created_at |-> stamps[i].created_at]]
                Old(row) == row.updated_at = 1
            IN incremental = NoIncremental(source,
                                           IF transferred THEN SelectSeq(source, Old) ELSE <<>>)

NextIncremental ==
    \/ MigrateTableDataIncremental
    \/ GetWatermark
    \/ GetDataSinceWatermark
    \/ FallbackQuery
    \/ IncrementalInsert

SpecIncremental == InitIncremental /\ [][NextIncremental]_vars

\* One table through a zero-downtime job, with the stream's ticks and the
\* application's writes in between: for every source table of up to MaxOld
\* rows written before the job starts, with or without a primary key.
InitReplication ==
    /\ EngineInit
    /\ ManagerInit
    /\ evolution = NoEvolution(<<>>, <<>>)
    /\ integrity = NoIntegrity(<<>>)
    /\ incremental = NoIncremental(<<>>, <<>>)
    /\ shared = NoShared([j \in SharedJobs |-> {}])
    /\ undo = NoUndo(<<>>)
    /\ copies = NoCopies(<<>>)
    /\ compat = NoCompat(TypedColumn("string", TRUE), TypedColumn("string", TRUE))
    /\ DataMigratorInit
    /\ tableDef = [columnType |-> "string"]
    /\ sourceRows = <<>>
    /\ \E n \in 0..MaxOld :
         \E stamps \in [1..n -> StampedRows], primaryKey \in BOOLEAN :
            replica = NoReplica([i \in 1..n |-> [id |-> i, updated_at |-> stamps[i].updated_at,
                                                 created_at |-> stamps[i].created_at]],
                                primaryKey, MaxStamp)

NextReplication ==
    \/ RunStart
    \/ \E throws \in BOOLEAN : RunSetupShadowWrites(throws)
    \/ \E throws \in BOOLEAN : RunMigrateSchema(throws)
    \/ \E throws \in BOOLEAN : RunMigrateDataIncremental(throws)
    \/ \E throws \in BOOLEAN : RunValidateShadowData(throws)
    \/ StreamTick
    \/ \E throws \in BOOLEAN : StreamQuery(throws)
    \/ \E throws \in BOOLEAN : StreamInsert(throws)
    \/ \E throws \in BOOLEAN : RunRenameTables(throws)
    \/ \E throws \in BOOLEAN : RunValidateMigration(throws)
    \/ SourceWrite

\* A call that the run awaits ends.
RunStep ==
    \E throws \in BOOLEAN :
       \/ RunSetupShadowWrites(throws)
       \/ RunMigrateSchema(throws)
       \/ RunMigrateDataIncremental(throws)
       \/ RunValidateShadowData(throws)
       \/ RunRenameTables(throws)
       \/ RunValidateMigration(throws)

\* Every awaited call of the run ends, and so does every query and insert
\* on a connection; nothing makes the timer fire or the application write.
FairReplication ==
    /\ WF_vars(RunStep)
    /\ WF_vars(\E throws \in BOOLEAN : StreamQuery(throws))
    /\ WF_vars(\E throws \in BOOLEAN : StreamInsert(throws))

SpecReplication == InitReplication /\ [][NextReplication]_vars /\ FairReplication

\* Two zero-downtime jobs through the engine's one manager, for every pair
\* of sets of tables on their sources.
InitShared ==
    /\ EngineInit
    /\ ManagerInit
    /\ DataMigratorInit
    /\ evolution = NoEvolution(<<>>, <<>>)
    /\ integrity = NoIntegrity(<<>>)
    /\ incremental = NoIncremental(<<>>, <<>>)
    /\ replica = NoReplica(<<>>, FALSE, 0)
    /\ tableDef = [columnType |-> "string"]
    /\ sourceRows = <<>>
    /\ undo = NoUndo(<<>>)
    /\ copies = NoCopies(<<>>)
    /\ compat = NoCompat(TypedColumn("string", TRUE), TypedColumn("string", TRUE))
    /\ \E tables \in [SharedJobs -> SUBSET (1..MaxTables)] : shared = NoShared(tables)

NextShared ==
    \/ \E j \in SharedJobs : SharedStart(j)
    \/ \E j \in SharedJobs, throws \in BOOLEAN : SharedSetupShadowWrites(j, throws)
    \/ \E j \in SharedJobs : SharedMigrate(j)
    \/ \E j \in SharedJobs, throws \in BOOLEAN : SharedVisit(j, throws)

SpecShared == InitShared /\ [][NextShared]_vars

\* rollbackMigration's two steps on a schema of up to MaxTables tables, each
\* missing on the target or there with some rows.
InitUndo ==
    /\ EngineInit
    /\ ManagerInit
    /\ DataMigratorInit
    /\ tableDef = [columnType |-> "string"]
    /\ sourceRows = <<>>
    /\ evolution = NoEvolution(<<>>, <<>>)
    /\ integrity = NoIntegrity(<<>>)
    /\ incremental = NoIncremental(<<>>, <<>>)
    /\ replica = NoReplica(<<>>, FALSE, 0)
    /\ shared = NoShared([j \in SharedJobs |-> {}])
    /\ copies = NoCopies(<<>>)
    /\ compat = NoCompat(TypedColumn("string", TRUE), TypedColumn("string", TRUE))
    /\ \E n \in 0..MaxTables :
         \E tables \in [1..n -> {TargetTable(FALSE, 0)}
                                   \cup {TargetTable(TRUE, rows) : rows \in Counts}] :
            undo = NoUndo(tables)

NextUndo ==
    \/ UndoStart
    \/ \E throws \in BOOLEAN : UndoGetExistingTables(throws)
    \/ \E throws \in {"none", "dropTable", "createTable"} : UndoRecreate(throws)
    \/ \E throws \in BOOLEAN : UndoClearTableData(throws)

SpecUndo == InitUndo /\ [][NextUndo]_vars

\* The tables an incremental copy finds: up to MaxOld rows on the source,
\* a target that is empty or holds the source's rows of instant 1 (copied
\* before), with or without a primary key.
CopiedTables ==
    UNION {{[source |-> [i \in 1..n |-> [id |-> i, updated_at |-> stamps[i],
                                         created_at |-> stamps[i]]],
             target |-> IF copied
                        THEN SelectSeq([i \in 1..n |-> [id |-> i, updated_at |-> stamps[i],
                                                        created_at |-> stamps[i]]],
                                       LAMBDA row : row.updated_at = 1)
                        ELSE <<>>,
             primaryKey |-> primaryKey]
            : stamps \in [1..n -> 1..MaxStamp], copied \in BOOLEAN, primaryKey \in BOOLEAN}
           : n \in 0..MaxOld}

\* migrateDataIncremental on every schema of up to MaxTables such tables.
InitCopies ==
    /\ EngineInit
    /\ ManagerInit
    /\ DataMigratorInit
    /\ tableDef = [columnType |-> "string"]
    /\ sourceRows = <<>>
    /\ evolution = NoEvolution(<<>>, <<>>)
    /\ integrity = NoIntegrity(<<>>)
    /\ incremental = NoIncremental(<<>>, <<>>)
    /\ replica = NoReplica(<<>>, FALSE, 0)
    /\ shared = NoShared([j \in SharedJobs |-> {}])
    /\ undo = NoUndo(<<>>)
    /\ compat = NoCompat(TypedColumn("string", TRUE), TypedColumn("string", TRUE))
    /\ \E n \in 0..MaxTables :
         \E tables \in [1..n -> CopiedTables] : copies = NoCopies(tables)

NextCopies ==
    \/ MigrateDataIncremental
    \/ \E watermarkThrows \in BOOLEAN, queryThrows \in BOOLEAN, fallbackThrows \in BOOLEAN :
         CopyTableIncremental(watermarkThrows, queryThrows, fallbackThrows)

SpecCopies == InitCopies /\ [][NextCopies]_vars

\* checkTableCompatibility for every pair of logical types and nullability.
InitCompat ==
    /\ EngineInit
    /\ ManagerInit
    /\ DataMigratorInit
    /\ tableDef = [columnType |-> "string"]
    /\ sourceRows = <<>>
    /\ evolution = NoEvolution(<<>>, <<>>)
    /\ integrity = NoIntegrity(<<>>)
    /\ incremental = NoIncremental(<<>>, <<>>)
    /\ replica = NoReplica(<<>>, FALSE, 0)
    /\ shared = NoShared([j \in SharedJobs |-> {}])
    /\ undo = NoUndo(<<>>)
    /\ copies = NoCopies(<<>>)
    /\ \E a \in LogicalTypes, b \in LogicalTypes, an \in BOOLEAN, bn \in BOOLEAN :
         compat = NoCompat(TypedColumn(a, an), TypedColumn(b, bn))

NextCompat == CheckTableCompatibility

SpecCompat == InitCompat /\ [][NextCompat]_vars

\* migrateSchema on one table and up to MaxIndexes indexes: the table is
\* found on the target or not.
InitMigrateSchema ==
    /\ EngineInit
    /\ ManagerInit
    /\ DataMigratorInit
    /\ tableDef = [columnType |-> "string"]
    /\ sourceRows = <<>>
    /\ integrity = NoIntegrity(<<>>)
    /\ incremental = NoIncremental(<<>>, <<>>)
    /\ replica = NoReplica(<<>>, FALSE, 0)
    /\ shared = NoShared([j \in SharedJobs |-> {}])
    /\ undo = NoUndo(<<>>)
    /\ copies = NoCopies(<<>>)
    /\ compat = NoCompat(TypedColumn("string", TRUE), TypedColumn("string", TRUE))
    /\ \E currentNames \in SUBSET {EvolveNames[i] : i \in 1..Len(EvolveNames)},
          targetNames \in SUBSET {EvolveNames[i] : i \in 1..Len(EvolveNames)},
          found \in BOOLEAN, indexes \in 0..MaxIndexes :
         \E current \in TablesOver(currentNames), target \in TablesOver(targetNames) :
            evolution = [NoEvolution(current, target) EXCEPT !.found = found,
                                                             !.indexes = indexes]

NextMigrateSchema ==
    \/ EvolveExistingTable
    \/ AddColumns
    \/ ModifyColumns
    \/ DropColumns
    \/ \E throws \in BOOLEAN : CreateTable(throws)
    \/ \E throws \in BOOLEAN : CreateOrUpdateIndex(throws)
    \/ MigrateSchemaReturn

SpecMigrateSchema == InitMigrateSchema /\ [][NextMigrateSchema]_vars

\* ------------------------------------------------------------- steps
\* The step makes a call of op on job id j (the call may end in the same step).
Invoked(op, j) ==
    /\ nCalls' = nCalls + 1
    /\ IF nCalls' \in DOMAIN calls'
       THEN calls'[nCalls'].op = op /\ calls'[nCalls'].job = j
       ELSE result'.op = op /\ result'.job = j

\* The step ends a call of op that was in flight before it.
EndsInFlight(op) ==
    /\ result'.op = op
    /\ result'.outcome # "none"
    /\ result'.call \in DOMAIN calls

\* The operation whose code the step runs.
StepOp ==
    IF nCalls' = nCalls + 1
    THEN (IF nCalls' \in DOMAIN calls' THEN calls'[nCalls'].op ELSE result'.op)
    ELSE result'.op

\* ------------------------------------------------------------- claims
\* C1 (as stated): every change of a job's status made by startMigration,
\* pauseMigration, resumeMigration or the execution they drive is one of
\* pending->running, running->paused, paused->running, running->completed,
\* running->failed, paused->failed.
C1_AllowedTransitions ==
    {<<"pending", "running">>, <<"running", "paused">>, <<"paused", "running">>,
     <<"running", "completed">>, <<"running", "failed">>, <<"paused", "failed">>}

C1_StatusMonotone ==
    [][\A j \in 1..Len(jobs) :
         (jobs'[j].status # jobs[j].status /\ StepOp # "rollback")
            => <<jobs[j].status, jobs'[j].status>> \in C1_AllowedTransitions]_vars

\* C2 (as stated): startMigration called on a job whose status is paused,
\* completed or failed is rejected with an error and leaves the job (status,
\* progress, start time, log) and the adapter cache as they were.
C2_StartRejectedOutsidePendingRunning ==
    [][\A j \in 1..Len(jobs) :
         (Invoked("start", j) /\ jobs[j].status \in {"paused", "completed", "failed"})
            => /\ result'.outcome = "raised"
               /\ jobs'[j] = jobs[j]
               /\ adapters' = adapters
               /\ calls' = calls]_vars

\* C3: when a step driven by startMigration raises, the call ends with the
\* job's status failed and its error field holding the message of the error
\* that is raised to the caller; the call is over, so it never marks the job
\* completed afterwards.
C3_StartFailureMarksFailed ==
    [][EndsInFlight("start") /\ result'.outcome = "raised"
         => /\ jobs'[result'.job].status = "failed"
            /\ jobs'[result'.job].error = result'.error
            /\ result'.error # NoError
            /\ result'.call \notin DOMAIN calls']_vars

\* C3 witness: a startMigration call has raised out of cutover and left its
\* job failed with that message.
C3_Witness ==
    /\ result.op = "start"
    /\ result.outcome = "raised"
    /\ result.error = PlainMsg("Rename failed")
    /\ jobs[result.job].status = "failed"
    /\ jobs[result.job].error = PlainMsg("Rename failed")

\* C4: pauseMigration returns and sets the status to paused exactly when the
\* job exists and is running; otherwise it raises, the jobs are unchanged and
\* no jobPaused event is emitted.
C4_PauseOnlyFromRunning ==
    [][\A j \in JobIds :
         Invoked("pause", j)
            => IF Known(j) /\ jobs[j].status = "running"
               THEN /\ result'.outcome = "returned"
                    /\ jobs'[j].status = "paused"
                    /\ emitted' = <<Event("jobPaused", j)>>
               ELSE /\ result'.outcome = "raised"
                    /\ jobs' = jobs
                    /\ \A i \in 1..Len(emitted') : emitted'[i].name # "jobPaused"]_vars

\* C4 witness (scenario E): pause was requested on a completed job and
\* rejected, the job still completed.
C4_Witness ==
    /\ result.op = "pause"
    /\ result.outcome = "raised"
    /\ Known(result.job)
    /\ jobs[result.job].status = "completed"

\* C5: resumeMigration returns and sets the status to running exactly when
\* the job exists and is paused; otherwise it raises, the jobs are unchanged
\* and no jobResumed event is emitted.
C5_ResumeOnlyFromPaused ==
    [][\A j \in JobIds :
         Invoked("resume", j)
            => IF Known(j) /\ jobs[j].status = "paused"
               THEN /\ result'.outcome = "returned"
                    /\ jobs'[j].status = "running"
                    /\ emitted' = <<Event("jobResumed", j)>>
               ELSE /\ result'.outcome = "raised"
                    /\ jobs' = jobs
                    /\ \A i \in 1..Len(emitted') : emitted'[i].name # "jobResumed"]_vars

\* C5 witness: a paused job was resumed: the call returned, the job is
\* running again and jobResumed was emitted.
C5_Witness ==
    /\ result.op = "resume"
    /\ result.outcome = "returned"
    /\ jobs[result.job].status = "running"
    /\ emitted = <<Event("jobResumed", result.job)>>

\* C6: rollbackMigration on a job whose strategy does not support rollback
\* raises at once: jobs, adapter cache and calls in flight are unchanged,
\* nothing is emitted; and no rollback call is ever in flight (resolving
\* adapters, rolling back schema or data) for such a job.
C6_RollbackRejectedWhenUnsupported ==
    /\ [](\A c \in DOMAIN calls :
            calls[c].op = "rollback" => jobs[calls[c].job].strategy.rollbackSupported)
    /\ [][\A j \in 1..Len(jobs) :
            (Invoked("rollback", j) /\ ~jobs[j].strategy.rollbackSupported)
               => /\ result'.outcome = "raised"
                  /\ jobs' = jobs
                  /\ adapters' = adapters
                  /\ calls' = calls
                  /\ emitted' = <<>>]_vars

\* C6 witness: rollback was requested on a completed job whose strategy
\* forbids it, and rejected.
C6_Witness ==
    /\ result.op = "rollback"
    /\ result.outcome = "raised"
    /\ Known(result.job)
    /\ ~jobs[result.job].strategy.rollbackSupported
    /\ jobs[result.job].status = "completed"

\* C7: rollbackMigration on a job whose strategy supports rollback sets the
\* status to running; when the call ends, the status is completed if schema
\* rollback and data rollback both returned and failed if a step raised
\* (adapter resolution included), never running.
C7_RollbackSettles ==
    [][/\ \A j \in 1..Len(jobs) :
            (Invoked("rollback", j) /\ jobs[j].strategy.rollbackSupported)
               => jobs'[j].status = "running" /\ nCalls' \in DOMAIN calls'
       /\ EndsInFlight("rollback")
            => /\ result'.outcome = "returned"
                  => /\ calls[result'.call].pc = "rollbackData"
                     /\ jobs'[result'.job].status = "completed"
               /\ result'.outcome = "raised"
                  => /\ jobs'[result'.job].status = "failed"
                     /\ jobs'[result'.job].error = result'.error]_vars

\* C7 witness: a rollback call raised out of schema rollback and left the
\* job failed.
C7_Witness ==
    /\ result.op = "rollback"
    /\ result.outcome = "raised"
    /\ result.error = PlainMsg("Schema rollback failed")
    /\ jobs[result.job].status = "failed"

\* C8 (as stated): operations on the same job are serialized: no operation
\* is started on a job (reading and writing its status) while another
\* operation on that job is in flight.
C8_OperationsSerialized ==
    [][\A j \in JobIds :
         (\E op \in {"start", "pause", "resume", "rollback"} : Invoked(op, j))
            => ~\E c \in DOMAIN calls : calls[c].job = j]_vars

\* C9: every job's progress is within [0, 100].
C9_ProgressInRange ==
    \A j \in 1..Len(jobs) :
       /\ RLeq(Rat(0, 1), jobs[j].progress)
       /\ RLeq(jobs[j].progress, Rat(100, 1))

\* C9 witness: a zero-downtime job is part-way through its copy, one of two
\* tables done, at progress 30 + 50 * 0.5 = 55.
C9_Witness ==
    \E c \in DOMAIN calls :
       /\ calls[c].pc = "migrateData"
       /\ calls[c].completedTables = 1
       /\ jobs[calls[c].job].schema = 2
       /\ ~jobs[calls[c].job].strategy.downtime
       /\ jobs[calls[c].job].progress = Rat(55, 1)

\* C10: startMigration sets a job completed only after its validateMigration
\* read equal source and target counts for every table of the schema; a
\* call that reads different counts for a table ends with the job failed and
\* an error message naming that table and both counts.
C10_CompletedOnlyOnParity ==
    [][/\ (EndsInFlight("start") /\ result'.outcome = "returned")
            => /\ jobs'[result'.job].status = "completed"
               /\ Len(calls[result'.call].checked) = jobs[result'.job].schema
               /\ \A t \in 1..Len(calls[result'.call].checked) :
                     calls[result'.call].checked[t][1] = calls[result'.call].checked[t][2]
       /\ (EndsInFlight("start") /\ result'.error.text = "Data validation failed for table")
            => /\ result'.outcome = "raised"
               /\ result'.error.table = Len(calls[result'.call].checked) + 1
               /\ result'.error.source # result'.error.target
               /\ jobs'[result'.job].status = "failed"
               /\ jobs'[result'.job].error = result'.error]_vars

\* C10 witness: validation matched on table 1 and read 1 source row and 0
\* target rows for table 2; the job is failed with that message.
C10_Witness ==
    /\ result.op = "start"
    /\ result.outcome = "raised"
    /\ result.error = Msg("Data validation failed for table", 2, 1, 0)
    /\ jobs[result.job].status = "failed"
    /\ jobs[result.job].error = Msg("Data validation failed for table", 2, 1, 0)

\* ------------------------------------------------------------- claims on cutover
\* The step ends the cutover call.
CutoverEnds == outcome'.call = outcome.call + 1

\* The error that cutover caught was thrown after renameTables had committed
\* (only the listeners of connectionsUpdated and cutoverCompleted throw there).
FailedAfterCommit == cutoverCall.error = ListenerError

\* The mapped tables whose shadow table the cutover call found on the target.
Swappable(before) == {t \in shadowTables : before[ShadowName(t)] # "none"}

\* C11 (as stated): a cutover that found different source and shadow counts
\* for a mapped table ends by throwing the error that carries both counts, has
\* issued no rename to the target, forward or reverse, and has not entered
\* maintenance mode.
C11_MismatchAbortsWithoutRename ==
    [][(CutoverEnds /\ cutoverCall.error.text = "Data validation failed for")
         => /\ outcome'.ended = "raised"
            /\ outcome'.error = cutoverCall.error
            /\ outcome'.error.source # outcome'.error.target
            /\ issued' = {}
            /\ ~cutoverCall.entered
            /\ ~maintenance']_vars

C13_RollbackCutoverReversesRenames ==
    [][/\ (FailedAfterCommit /\ cutoverCall.pc = "rollbackToLive" /\ txn.state = "open"
             /\ cutoverCall'.pc # "rollbackToLive")
            => View[BackupName(cutoverCall.table, cutoverCall.stamp)] = "original"
       /\ (FailedAfterCommit /\ cutoverCall.pc = "rollbackCommit"
             /\ cutoverCall'.pc = "rollbackDisable")
            => \A t \in 1..MaxTables :
                  catalog'[LiveName(t)] = cutoverCall.before[LiveName(t)]]_vars

\* C14 (as stated): a cutover call that entered maintenance mode ends only
\* after disableMaintenanceMode has run, on the path that returns and on the
\* path through rollbackCutover.
C14_MaintenanceModeExited ==
    [][(CutoverEnds /\ cutoverCall.entered)
         => cutoverCall.pc \in {"disableMaintenanceMode", "rollbackDisable"}]_vars

\* C15 (as stated): a tick of a stream's polling loop calls insertData on the
\* shadow table only while the stream's isActive flag is true, and no insert
\* of a tick lands once the flag is false.
C15_NoPollingInsertAfterDeactivation ==
    [][\A t \in 1..MaxTables :
         /\ pollers'[t].inserting > pollers[t].inserting => pollers'[t].isActive
         /\ (did'.kind = "pollInsert" /\ did'.table = t /\ pollers'[t].inserting < pollers[t].inserting)
               => pollers[t].isActive]_vars

\* C16 (as stated): once every job is completed or failed and no call is in
\* flight, shadowTables and replicationStreams are empty.
C16_ShadowMapsEmptyAfterJob ==
    (/\ calls = <<>>
     /\ Len(jobs) > 0
     /\ \A j \in 1..Len(jobs) : jobs[j].status \in {"completed", "failed"})
        => /\ shadowTables = {}
           /\ DOMAIN replicationStreams = {}

\* ------------------------------------------------------------- claims on the phases
\* The awaits of a startMigration call before its first phase.
Connecting == {"connect1", "connect2"}

\* Call c of startMigration goes from await `from` to await `to` in the step.
Moves(c, from, to) ==
    /\ c \in DOMAIN calls /\ c \in DOMAIN calls'
    /\ calls[c].pc = from /\ calls'[c].pc = to

\* The step changes the await of call c, or makes call c.
Arrives(c, to) ==
    /\ c \in DOMAIN calls'
    /\ calls'[c].pc = to
    /\ c \in DOMAIN calls => calls[c].pc # to

Between(low, p, high) == RLeq(Rat(low, 1), p) /\ RLeq(p, Rat(high, 1))

\* C17: a startMigration call on a downtime job awaits migrateSchema first,
\* the copy only once migrateSchema has returned (the progress is then 30),
\* copies tables only while it awaits the copy (the progress is then within
\* [30, 90]), awaits validation only once every table is copied (the
\* progress is then 90) and never awaits shadow setup or cutover; the job's
\* progress becomes 100 only in the step after validation compared every table.
C17_DowntimePhaseOrder ==
    [][/\ \A c \in DOMAIN calls' :
            (calls'[c].op = "start" /\ jobs'[calls'[c].job].strategy.downtime)
               => LET j == calls'[c].job IN
                  /\ calls'[c].pc \notin {"setupShadowWrites", "cutover"}
                  /\ Arrives(c, "migrateSchema")
                        => c \notin DOMAIN calls \/ calls[c].pc \in Connecting
                  /\ Arrives(c, "migrateData")
                        => Moves(c, "migrateSchema", "migrateData")
                           /\ jobs'[j].progress = Rat(30, 1)
                           /\ calls'[c].completedTables = 0
                  /\ (c \in DOMAIN calls /\ calls'[c].completedTables # calls[c].completedTables)
                        => /\ Moves(c, "migrateData", "migrateData")
                           /\ calls'[c].completedTables = calls[c].completedTables + 1
                           /\ Between(30, jobs'[j].progress, 90)
                  /\ Arrives(c, "validateMigration")
                        => /\ Moves(c, "migrateData", "validateMigration")
                           /\ calls[c].completedTables = jobs[j].schema
                           /\ jobs'[j].progress = Rat(90, 1)
       /\ \A j \in 1..Len(jobs) :
            (jobs[j].strategy.downtime /\ jobs'[j].progress = Rat(100, 1)
               /\ jobs[j].progress # Rat(100, 1))
               => /\ EndsInFlight("start") /\ result'.outcome = "returned" /\ result'.job = j
                  /\ calls[result'.call].pc = "validateMigration"
                  /\ Len(calls[result'.call].checked) = jobs[j].schema]_vars

\* C17 witness: a call on a downtime job of two tables has copied both and
\* awaits validation, at progress 90.
C17_Witness ==
    \E c \in DOMAIN calls :
       /\ calls[c].pc = "validateMigration"
       /\ jobs[calls[c].job].strategy.downtime
       /\ jobs[calls[c].job].schema = 2
       /\ calls[c].completedTables = 2
       /\ jobs[calls[c].job].progress = Rat(90, 1)

\* C18: a startMigration call on a zero-downtime job awaits shadow setup
\* first, then migrateSchema (progress 10), the incremental copy (progress
\* 30, and within [30, 80] as tables are copied), cutover only once every
\* table is copied (progress 80) and validation only once cutover has
\* returned (progress 95); the progress becomes 100 only in the step after
\* validation compared every table; and a call whose phase raises is over.
C18_ZeroDowntimePhaseOrder ==
    [][/\ \A c \in DOMAIN calls' :
            (calls'[c].op = "start" /\ ~jobs'[calls'[c].job].strategy.downtime)
               => LET j == calls'[c].job IN
                  /\ Arrives(c, "setupShadowWrites")
                        => c \notin DOMAIN calls \/ calls[c].pc \in Connecting
                  /\ Arrives(c, "migrateSchema")
                        => Moves(c, "setupShadowWrites", "migrateSchema")
                           /\ jobs'[j].progress = Rat(10, 1)
                  /\ Arrives(c, "migrateData")
                        => Moves(c, "migrateSchema", "migrateData")
                           /\ jobs'[j].progress = Rat(30, 1)
                           /\ calls'[c].completedTables = 0
                  /\ (c \in DOMAIN calls /\ calls'[c].completedTables # calls[c].completedTables)
                        => /\ Moves(c, "migrateData", "migrateData")
                           /\ calls'[c].completedTables = calls[c].completedTables + 1
                           /\ Between(30, jobs'[j].progress, 80)
                  /\ Arrives(c, "cutover")
                        => /\ Moves(c, "migrateData", "cutover")
                           /\ calls[c].completedTables = jobs[j].schema
                           /\ jobs'[j].progress = Rat(80, 1)
                  /\ Arrives(c, "validateMigration")
                        => Moves(c, "cutover", "validateMigration")
                           /\ jobs'[j].progress = Rat(95, 1)
       /\ \A j \in 1..Len(jobs) :
            (~jobs[j].strategy.downtime /\ jobs'[j].progress = Rat(100, 1)
               /\ jobs[j].progress # Rat(100, 1))
               => /\ EndsInFlight("start") /\ result'.outcome = "returned" /\ result'.job = j
                  /\ calls[result'.call].pc = "validateMigration"
                  /\ Len(calls[result'.call].checked) = jobs[j].schema
       /\ (EndsInFlight("start") /\ result'.outcome = "raised")
            => result'.call \notin DOMAIN calls']_vars

\* C18 witness: a call on a zero-downtime job of two tables has been through
\* shadow setup, schema migration, the copy and cutover, and awaits
\* validation at progress 95.
C18_Witness ==
    \E c \in DOMAIN calls :
       /\ calls[c].pc = "validateMigration"
       /\ ~jobs[calls[c].job].strategy.downtime
       /\ jobs[calls[c].job].schema = 2
       /\ calls[c].completedTables = 2
       /\ shadowTables = {1, 2}
       /\ jobs[calls[c].job].progress = Rat(95, 1)

\* ------------------------------------------------------------- claims on the full copy
\* ceil(n / b)
Ceil(n, b) == (n + b - 1) \div b

\* The rows of the source table whose value is a text that is not a UUID.
InvalidUuidRows == {i \in 1..Len(sourceRows) :
                      sourceRows[i].value # Null /\ ~UuidRegexTest(sourceRows[i].value)}

\* C19: when migrateTableData has returned, with B = batchSize and N the
\* number of source rows, it has made ceil(N/B) fetches, or ceil(N/B) + 1
\* when B divides N, the i-th with limit B at offset (i-1)B; and the target
\* holds exactly the N source rows, each once, in order.
C19_FullCopyPages ==
    copyCall.pc = "returned"
       => LET B == batchSize
              N == Len(sourceRows)
          IN /\ B >= 1
             /\ Len(fetches) = IF N % B = 0 THEN Ceil(N, B) + 1 ELSE Ceil(N, B)
             /\ \A i \in 1..Len(fetches) :
                   /\ fetches[i].limit = B
                   /\ fetches[i].offset = (i - 1) * B
                   /\ fetches[i].rows = IF i * B <= N THEN B
                                        ELSE IF (i - 1) * B <= N THEN N - (i - 1) * B ELSE 0
             /\ Len(targetRows) = N
             /\ \A i \in 1..N : targetRows[i].id = sourceRows[i].id
             /\ copyCall.totalMigrated = N

\* C19 witness (scenario A in small): 5 rows copied with batch size 2 in
\* three fetches of 2, 2 and 1 rows.
C19_Witness ==
    /\ copyCall.pc = "returned"
    /\ batchSize = 2
    /\ Len(sourceRows) = 5
    /\ [i \in 1..Len(fetches) |-> fetches[i].rows] = <<2, 2, 1>>
    /\ Len(targetRows) = 5

\* C20 (as stated): when migrateTableData has returned for a table with a
\* uuid column, the target holds as many rows as the source has rows whose
\* uuid value is not invalid.
C20_InvalidUuidRowsDropped ==
    (copyCall.pc = "returned" /\ tableDef.columnType = "uuid")
       => Len(targetRows) = Len(sourceRows) - Cardinality(InvalidUuidRows)

\* ------------------------------------------------------------- claims on the job record
\* C24 (as stated): a step that changes a job's status appends a log entry to
\* that job and emits an event about that job.
C24_TransitionLoggedAndEmitted ==
    [][\A j \in 1..Len(jobs) :
         jobs'[j].status # jobs[j].status
            => /\ Len(jobs'[j].logs) > Len(jobs[j].logs)
               /\ \E i \in 1..Len(emitted') : emitted'[i].job = j]_vars

\* The endpoint key whose adapter call c has created and is connecting.
ConnectingKey(c) ==
    IF calls[c].pc = "connect1" THEN FirstKey(calls[c].op, jobs[calls[c].job])
                                ELSE SecondKey(calls[c].op, jobs[calls[c].job])

\* C25 (as stated): an adapter is created and connected only for an endpoint
\* key that has no adapter yet, cached or still connecting.
C25_OneAdapterPerEndpoint ==
    \A c \in DOMAIN calls :
       calls[c].pc \in Connecting
          => /\ ConnectingKey(c) \notin adapters
             /\ \A d \in DOMAIN calls \ {c} :
                   calls[d].pc \in Connecting => ConnectingKey(d) # ConnectingKey(c)

\* C27: a job whose status is failed has its error field set.
C27_FailedJobHasError ==
    \A j \in 1..Len(jobs) : jobs[j].status = "failed" => jobs[j].error # NoError

\* C27 witness: a rollback call on a job that was never started could not
\* connect; the job is failed and carries the connection error.
C27_Witness ==
    /\ result.op = "rollback"
    /\ result.outcome = "raised"
    /\ result.error = PlainMsg("Failed to connect")
    /\ jobs[result.job].status = "failed"
    /\ jobs[result.job].startTime = 0
    /\ jobs[result.job].error = PlainMsg("Failed to connect")

NamesInOrder(columns) == [i \in 1..Len(columns) |-> columns[i].name]

\* C23: for the table that evolveExistingTable read and its target
\* definition, the add, modify and drop lists name no column twice and are
\* pairwise disjoint by name; add names the target's columns that the table
\* lacks, drop the table's columns that the target lacks, modify the columns
\* of both whose type, nullability or default differs; and once the add, the
\* modify and the drop statements have gone through, in that order, the
\* table has the target's column names.
C23_ColumnDiff ==
    evolution.pc # "idle"
       => LET current == evolution.currentSchema
              target == evolution.target
              add == ColumnNames(evolution.changes.addColumns)
              modify == ColumnNames(evolution.changes.modifyColumns)
              drop == ColumnNames(evolution.changes.dropColumns)
          IN /\ Cardinality(add) = Len(evolution.changes.addColumns)
             /\ Cardinality(modify) = Len(evolution.changes.modifyColumns)
             /\ Cardinality(drop) = Len(evolution.changes.dropColumns)
             /\ add \cap modify = {} /\ add \cap drop = {} /\ modify \cap drop = {}
             /\ add = ColumnNames(target) \ ColumnNames(current)
             /\ drop = ColumnNames(current) \ ColumnNames(target)
             /\ modify = {name \in ColumnNames(current) \cap ColumnNames(target) :
                            LET c == ColumnOf(current, name)
                                t == ColumnOf(target, name)
                            IN <<c.type, c.nullable, c.defaultValue>>
                                  # <<t.type, t.nullable, t.defaultValue>>}
             /\ evolution.pc = "returned"
                   => ColumnNames(evolution.table) = ColumnNames(target)

\* C23 witness (scenario C): the table has id and email, the target id,
\* email and phone with the same definitions: phone is added, nothing is
\* modified or dropped, and the table ends with the three columns.
C23_Witness ==
    /\ evolution.pc = "returned"
    /\ NamesInOrder(evolution.currentSchema) = <<"id", "email">>
    /\ NamesInOrder(evolution.target) = <<"id", "email", "phone">>
    /\ NamesInOrder(evolution.changes.addColumns) = <<"phone">>
    /\ evolution.changes.modifyColumns = <<>>
    /\ evolution.changes.dropColumns = <<>>
    /\ NamesInOrder(evolution.table) = <<"id", "email", "phone">>

\* ------------------------------------------------------------- claims on validateDataIntegrity
\* The tables of the schema whose source and target counts differ.
DifferingTables ==
    {t \in 1..Len(integrity.counts) : integrity.counts[t][1] # integrity.counts[t][2]}

\* C22: when validateDataIntegrity has returned, isValid is false exactly
\* when some table's counts differ and true exactly when the mismatch list is
\* empty; the list holds the tables whose counts differ, each once and with
\* both its counts, and no other table.
C22_IntegrityMismatches ==
    integrity.pc = "returned"
       => /\ integrity.isValid = (DifferingTables = {})
          /\ integrity.isValid = (integrity.mismatches = <<>>)
          /\ {integrity.mismatches[i].table : i \in 1..Len(integrity.mismatches)}
                = DifferingTables
          /\ Len(integrity.mismatches) = Cardinality(DifferingTables)
          /\ \A i \in 1..Len(integrity.mismatches) :
                LET m == integrity.mismatches[i] IN
                /\ m.sourceCount = integrity.counts[m.table][1]
                /\ m.targetCount = integrity.counts[m.table][2]

\* C22 witness: of three tables the first has equal counts, the second one
\* row more on the source, the third one row more on the target: the result
\* is invalid and lists the second and the third.
C22_Witness ==
    /\ integrity.pc = "returned"
    /\ integrity.counts = <<<<1, 1>>, <<1, 0>>, <<0, 1>>>>
    /\ ~integrity.isValid
    /\ integrity.mismatches =
          <<[table |-> 2, sourceCount |-> 1, targetCount |-> 0],
            [table |-> 3, sourceCount |-> 0, targetCount |-> 1]>>

\* ------------------------------------------------------------- claims on the incremental copy
\* C21 (as stated), for copies during which no adapter call threw: a copy
\* that follows another one transfers no row and finds a watermark that is
\* not lower than the one found before; and a first copy that finds the
\* watermark at the epoch, of a source with no more rows than a batch holds,
\* transfers every row of the source (all are newer).
C21_IncrementalIdempotent ==
    \A k \in 1..Len(incremental.runs) :
       (\A i \in 1..k : ~incremental.runs[i].threw)
          => /\ k > 1 => /\ incremental.runs[k].transferred = 0
                         /\ incremental.runs[k].watermark >= incremental.runs[k - 1].watermark
             /\ (k = 1 /\ incremental.runs[k].watermark = Epoch
                    /\ Len(incremental.source) <= batchSize)
                   => incremental.runs[k].transferred = Len(incremental.source)

\* ------------------------------------------------------------- claims on one table's replication
\* The rows are in non-decreasing order of the timestamp the source returned
\* with them.
InStampOrder(rows) ==
    \A i, j \in 1..Len(rows) : i < j => rows[i].updated_at <= rows[j].updated_at

\* C26 (as stated): the rows that the ticks of the stream and the final sync
\* have inserted into the shadow table, in the order they were inserted, are
\* in non-decreasing order of their timestamp.
C26_ChangesAppliedInOrder == InStampOrder(replica.shadow)

\* The same order, asked only of runs in which no call threw (so that no
\* fallback query ran either).
InOrderUnlessThrew == ~replica.threw => InStampOrder(replica.shadow)

\* C29 (as stated): a started job of a source table with at least one row
\* is eventually completed, unless a call throws or the source is written to.
C29_EventuallyCompleted ==
    (replica.pc = "setupShadowWrites" /\ Len(replica.source) >= 1)
       ~> (replica.status = "completed" \/ replica.threw \/ replica.writes > 0)

\* ------------------------------------------------------------- claims on the shared manager
\* C30 (as stated): a pass of a loop of a job's cutover visits a table that
\* the setupShadowWrites of that job has put in shadowTables.
C30_CutoverTouchesOwnTables ==
    shared.touched.op \in {"validateShadowData", "finalSync", "renameTables", "rollbackCutover"}
       => shared.touched.job \in shared.mappedBy[shared.touched.table]

\* ------------------------------------------------------------- claims on a job's progress
\* C40 (as stated): in every state a job whose status is completed has
\* progress 100.
C40_CompletedHasFullProgress ==
    \A j \in 1..Len(jobs) : jobs[j].status = "completed" => jobs[j].progress = Rat(100, 1)

\* ------------------------------------------------------------- claims on rollbackData
\* C36 (as stated): when rollbackData has returned and rollbackMigration has
\* marked the job completed, every table of the schema on the target holds
\* no row (a table that is not there holds none), also when a delete threw.
C36_RollbackEmptiesTables ==
    undo.status = "completed" => \A t \in 1..Len(undo.tables) : undo.tables[t].rows = 0

\* ------------------------------------------------------------- claims on the incremental copy of a schema
\* C35 (as stated): a copy in which a fetch query threw (and no watermark
\* query did) is not aborted; and a copy that has returned has called the
\* progress callback once for each table.
C35_FetchFailureNeverAborts ==
    /\ ("query" \in copies.threw /\ "getWatermark" \notin copies.threw) => copies.pc # "raised"
    /\ copies.pc = "returned" => Len(copies.progress) = Len(copies.tables)

\* With no query throwing, these copies are not aborted either.
NoAbortUnlessThrew == copies.threw = {} => copies.pc # "raised"

\* ------------------------------------------------------------- claims on type compatibility
\* C39 (as stated): the column's types are reported as a type error exactly
\* when they are with source and target exchanged.
C39_CompatibilitySymmetric ==
    compat.pc = "checked"
       => (compat.errors = 1 <=> ~AreTypesCompatible(compat.target.type, compat.source.type))

\* ------------------------------------------------------------- claims on migrateSchema
\* The statements of the whole plan, in the order the claim gives.
PlanStatements(changes) ==
    Statements("addColumns", changes.addColumns, Len(changes.addColumns))
       \o Statements("modifyColumns", changes.modifyColumns, Len(changes.modifyColumns))
       \o Statements("dropColumns", changes.dropColumns, Len(changes.dropColumns))

IsPrefix(s, t) == Len(s) <= Len(t) /\ SubSeq(t, 1, Len(s)) = s

\* C37: for a table found on the target, the statements issued so far are
\* the beginning of: every addition, then every modification, then every
\* drop; they are all of them once evolveExistingTable has returned; after a
\* statement has failed no further statement is issued.  A table not found
\* is created whole with one createTable and no change is calculated for it.
C37_AddsModifiesDropsInOrder ==
    /\ [](/\ (evolution.found /\ evolution.pc # "idle")
               => /\ IsPrefix(evolution.issued, PlanStatements(evolution.changes))
                  /\ evolution.pc \in {"returned", "migrated"}
                        => evolution.issued = PlanStatements(evolution.changes)
                  /\ evolution.pc = "raised" => Len(evolution.issued) >= 1
          /\ (~evolution.found /\ evolution.pc # "idle")
               => /\ evolution.issued = <<[op |-> "createTable", name |-> "*"]>>
                  /\ evolution.changes = NoChanges
                  /\ evolution.currentSchema = <<>>
                  /\ evolution.pc # "raised" => evolution.table = evolution.target)
    /\ [][evolution.pc = "raised" => evolution' = evolution]_vars

\* C37 witness: a table found on the target has had an addition, a
\* modification and a drop, in that order, and evolveExistingTable returned.
C37_Witness ==
    /\ evolution.found
    /\ evolution.pc = "returned"
    /\ Len(evolution.issued) = 3
    /\ evolution.issued[1].op = "addColumns"
    /\ evolution.issued[2].op = "modifyColumns"
    /\ evolution.issued[3].op = "dropColumns"

\* C37 witness, second case: a table not found has been created whole.
C37_WitnessCreated ==
    /\ ~evolution.found
    /\ evolution.pc = "created"
    /\ Len(evolution.target) = 2
    /\ evolution.table = evolution.target

\* C38: a createIndex that fails does not make migrateSchema raise, every
\* index of the schema has been attempted when migrateSchema returns, and
\* when migrateSchema has raised (a createTable or a column statement
\* failed) no index has been attempted.
C38_IndexFailureDoesNotAbort ==
    /\ evolution.pc = "raised" => evolution.indexLog = <<>>
    /\ evolution.pc = "migrated" => Len(evolution.indexLog) = evolution.indexes
    /\ Len(evolution.indexLog) <= evolution.indexes

\* C38 witness: the first createIndex failed, the second one went through
\* and migrateSchema returned.
C38_Witness ==
    /\ evolution.pc = "migrated"
    /\ evolution.indexLog = <<"failed", "created">>

\* ------------------------------------------------------------- claims on maintenance mode
\* C33 (as stated): cutover is at its final sync or in its rename
\* transaction only after enableMaintenanceMode has entered maintenance mode,
\* and a rename of renameTables is issued only while maintenance mode is on.
C33_RenamesUnderMaintenance ==
    cutoverCall.pc \in {"finalSync", "renameBegin", "renameToBackup", "renameToLive",
                        "renameCommit"}
       => /\ cutoverCall.entered
          /\ maintenance

\* ------------------------------------------------------------- claims on a stream's ticks
\* C31 (as stated): once the job's startMigration has ended, with the job
\* failed or completed, its stream is inactive, if not at once then
\* eventually.
C31_StreamStopsWhenJobEnds == (replica.pc = "ended") ~> ~replica.stream.isActive

\* A row of the source is in the shadow table, or in the live table that the
\* shadow table has become.
Replicated(row) ==
    \/ \E i \in 1..Len(replica.shadow) : replica.shadow[i] = row
    \/ /\ replica.pc \in {"validateMigration", "ended"}
       /\ \E i \in 1..Len(replica.target) : replica.target[i] = row

C34_TickFailureReported ==
    /\ [](\A i \in 1..Len(replica.ticked) :
             /\ replica.ticked[i].fellBack => replica.ticked[i].emitted
             /\ ~replica.ticked[i].inserted => ~replica.ticked[i].advanced)
    /\ [][(replica.stream.isActive /\ ~replica'.stream.isActive)
             => replica.pc = "validateShadowData"]_vars

====
